---------------------------- MODULE Spec2Model ----------------------------
(***************************************************************************)
(* Model of the integral visualizer of roomrys/sigsys: the period resolver *)
(* (toRational, continuedFractionApprox, gcd, lcm, calculateLCMOfPeriods), *)
(* the quadrature engine (numericalIntegration, splitDataBy...Period,      *)
(* formatIntegralValue) and the IntegralVisualizer object with its slider  *)
(* event handlers.                                                         *)
(*                                                                         *)
(* Numbers.  A JavaScript Number is modelled by an exact rational <<n, d>> *)
(* in lowest terms with d > 0.  A time or a period is a multiple of        *)
(* Math.PI and is modelled by the record [pi |-> r], standing for          *)
(* r * Math.PI; dividing such a value by Math.PI gives the plain number r. *)
(***************************************************************************)
EXTENDS Integers, Sequences, FiniteSets, TLC

(***************************************************************************)
(* Bounds of the model.                                                    *)
(***************************************************************************)
\* analysis frequencies p/q handed to the resolver: p in 1..MaxOmegaNum
MaxOmegaNum == 102
\* ... and q in 1..MaxOmegaDen
MaxOmegaDen == 4
\* longest sample series handed to numericalIntegration
MaxLen == 3
\* longest data/time array handed to the split operations
MaxSplitLen == 2
\* sample times k * (pi/2) with |k| <= MaxTimeHalf
MaxTimeHalf == 4
\* a visualizer is constructed with initialAngularFrequency 1/(1 + k),
\* k in 0..MaxInitOmegaStep
MaxInitOmegaStep == 1
\* values n/200 with |n| <= MaxFormatStep handed to formatIntegralValue
MaxFormatStep == 520
\* non-positive frequencies -p/q handed to the resolver: p in 0..MaxNegOmegaNum
MaxNegOmegaNum == 3
\* ... and q in 1..MaxNegOmegaDen
MaxNegOmegaDen == 2
\* decimals p/q handed to toRational: p in 1..MaxDecimalNum
MaxDecimalNum == 12
\* ... and q in 1..MaxDecimalDen
MaxDecimalDen == 12
\* small decimals 3/(100 k) handed to toRational, k in 1..MaxSmallDecimal
MaxSmallDecimal == 4
\* inputs p/q of continuedFractionApprox: |p| <= MaxCFNum
MaxCFNum == 12
\* ... and q in 1..MaxCFDen
MaxCFDen == 12
\* ... and inputs p/(maxDenominator + 1), p in 1..MaxCFLarge
MaxCFLarge == 12
\* timers that may be pending at once; an event that would schedule more is
\* not taken
MaxTimers == 6
\* datasets of one chart: the main dataset and the additional ones
MaxDatasets == 2
\* visualizer instances the application creates in one run
MaxVisualizers == 3
\* periods (p/q) pi handed to calculateLCMOfPeriods: p in 1..MaxPeriodNum
MaxPeriodNum == 3
\* ... and q in 1..MaxPeriodDen
MaxPeriodDen == 3
\* longest sequence of periods handed to calculateLCMOfPeriods
MaxPeriods == 2
\* intervals of a time grid (const points = 800 in generateTimeArray and
\* generateIntegrationTimeArray; a grid of points + 1 samples is built the same
\* way for every value)
points == 20
\* steps of the frequency slider's range tried between two grid values
MaxOffGridStep == 1
\* phase slider positions 0..MaxPhaseStep (of step 0.01) that are tried
MaxPhaseStep == 2

(***************************************************************************)
(* Program constants.                                                      *)
(***************************************************************************)
\* toRational(decimal, precision = 1e-10): the exponent of the tolerance
PrecisionExp == 10
\* continuedFractionApprox(x, maxDenominator = 100)
maxDenominator == 100

(***************************************************************************)
(* JavaScript Number arithmetic on exact rationals, with Infinity and NaN;  *)
(* zero has no sign here: -0 is not told from 0.                           *)
(***************************************************************************)
Abs(i) == IF i < 0 THEN -i ELSE i

RECURSIVE IntGcd(_, _)
IntGcd(a, b) == IF b = 0 THEN a ELSE IntGcd(b, a % b)

\* the Numbers that are no rationals: a zero denominator carries the sign
Infinity == << 1, 0 >>
NaN == << 0, 0 >>
IsNaN(x) == x = NaN
IsFinite(x) == x[2] # 0

\* the rational n/d in lowest terms with a positive denominator; n/0 is
\* Infinity, -Infinity or NaN (0/0), as IEEE-754 division gives them
Rat(n, d) ==
    IF d = 0
    THEN << (IF n > 0 THEN 1 ELSE IF n < 0 THEN -1 ELSE 0), 0 >>
    ELSE LET g == IntGcd(Abs(n), Abs(d))
             s == IF d < 0 THEN -1 ELSE 1
         IN  << (s * n) \div g, (s * d) \div g >>

Num(i) == << i, 1 >>
RAdd(x, y) == Rat(x[1] * y[2] + y[1] * x[2], x[2] * y[2])
RSub(x, y) == Rat(x[1] * y[2] - y[1] * x[2], x[2] * y[2])
RMul(x, y) == Rat(x[1] * y[1], x[2] * y[2])
RDiv(x, y) == Rat(x[1] * y[2], x[2] * y[1])
RNeg(x) == << -x[1], x[2] >>
RAbs(x) == << Abs(x[1]), x[2] >>
\* a comparison with NaN is false
RLt(x, y) ==
    /\ ~IsNaN(x)
    /\ ~IsNaN(y)
    /\ IF x[2] = 0 /\ y[2] = 0 THEN x[1] < y[1] ELSE x[1] * y[2] < y[1] * x[2]
RLe(x, y) ==
    /\ ~IsNaN(x)
    /\ ~IsNaN(y)
    /\ IF x[2] = 0 /\ y[2] = 0 THEN x[1] <= y[1] ELSE x[1] * y[2] <= y[1] * x[2]
RMax(x, y) ==
    IF IsNaN(x) \/ IsNaN(y) THEN NaN ELSE IF RLt(x, y) THEN y ELSE x
\* Math.floor and Math.round (round half up: floor(x + 0.5)) of a finite x
MathFloor(x) == x[1] \div x[2]
MathRound(x) == (2 * x[1] + x[2]) \div (2 * x[2])

\* floor(d / 10^e), by e divisions by ten (10^10 itself exceeds TLC's integers)
RECURSIVE DivPow10(_, _)
DivPow10(d, e) == IF e = 0 THEN d ELSE DivPow10(d \div 10, e - 1)

\* x < 1e-10 for x >= 0, and x > 1e-10
LtPrecision(x) == x[1] <= DivPow10(x[2] - 1, PrecisionExp)
GtPrecision(x) == x[1] > DivPow10(x[2], PrecisionExp)

\* r * Math.PI, and p / Math.PI
TimesPi(r) == [pi |-> r]
OverPi(p) == p.pi

(***************************************************************************)
(* PeriodResolver.                                                         *)
(***************************************************************************)
RECURSIVE gcd(_, _)
gcd(a, b) ==
    LET a1 == Abs(a)
        b1 == Abs(b)
    IN  IF b1 = 0 THEN a1 ELSE gcd(b1, a1 % b1)

\* a product in place of the least common multiple
lcmProduct(a, b) == Abs(a * b)

lcm(a, b) == Abs(a * b) \div gcd(a, b)

\* the one element of a singleton set: the value an expression has
Only(values) == CHOOSE v \in values : TRUE

\* the while loop of continuedFractionApprox, one iteration per unfolding;
\* step holds what the iteration assigns.  The arithmetic is exact: where x
\* has a denominator above maxDenominator, the doubles of the code can leave
\* the loop one convergent later than the rationals do.
RECURSIVE cfLoop(_, _, _, _, _)
cfLoop(x, p0, p1, q0, q1) ==
    IF GtPrecision(x) /\ q1 < maxDenominator
    THEN Only({ IF step.q2 > maxDenominator
                THEN [numerator |-> p1, denominator |-> q1]
                ELSE cfLoop(step.x, p1, step.p2, q1, step.q2) :
                step \in { LET x1 == RDiv(Num(1), x)
                               a == MathFloor(x1)
                           IN  [x |-> RSub(x1, Num(a)),
                                p2 |-> a * p1 + p0,
                                q2 |-> a * q1 + q0] } })
    ELSE [numerator |-> p1, denominator |-> q1]

continuedFractionApprox(x) ==
    Only({ cfLoop(RSub(x, Num(a)), 1, a, 0, 1) : a \in { MathFloor(x) } })

\* a slip in the half-integer branch: numerator 2 instead of 4
toRationalHalved(decimal) ==
    IF LtPrecision(RAbs(RSub(decimal, Num(2))))
    THEN [numerator |-> 2, denominator |-> 1]
    ELSE IF LtPrecision(RAbs(RSub(decimal, Num(1))))
    THEN [numerator |-> 1, denominator |-> 1]
    ELSE IF LtPrecision(RAbs(RSub(decimal, Rat(2, 3))))
    THEN [numerator |-> 2, denominator |-> 3]
    ELSE LET reciprocal == RDiv(Num(2), decimal)
             doubled == RMul(reciprocal, Num(2))
         IN  IF RLt(Num(0), decimal)
                /\ LtPrecision(RAbs(RSub(reciprocal, Num(MathRound(reciprocal)))))
             THEN [numerator |-> 2, denominator |-> MathRound(reciprocal)]
             ELSE IF RLt(Num(0), decimal)
                     /\ LtPrecision(RAbs(RSub(doubled, Num(MathRound(doubled)))))
             THEN [numerator |-> 2, denominator |-> MathRound(doubled)]
             ELSE continuedFractionApprox(decimal)

\* a slip that drops the shortcut for 1
toRationalReturnNoUnit(decimal) ==
    IF LtPrecision(RAbs(RSub(decimal, Num(2))))
    THEN [at |-> "2", value |-> [numerator |-> 2, denominator |-> 1]]
    ELSE IF LtPrecision(RAbs(RSub(decimal, Rat(2, 3))))
    THEN [at |-> "2/3", value |-> [numerator |-> 2, denominator |-> 3]]
    ELSE LET reciprocal == RDiv(Num(2), decimal)
             doubled == RMul(reciprocal, Num(2))
         IN  IF RLt(Num(0), decimal)
                /\ LtPrecision(RAbs(RSub(reciprocal, Num(MathRound(reciprocal)))))
             THEN [at |-> "integer",
                   value |-> [numerator |-> 2,
                              denominator |-> MathRound(reciprocal)]]
             ELSE IF RLt(Num(0), decimal)
                     /\ LtPrecision(RAbs(RSub(doubled, Num(MathRound(doubled)))))
             THEN [at |-> "half-integer",
                   value |-> [numerator |-> 4, denominator |-> MathRound(doubled)]]
             ELSE [at |-> "continued-fraction",
                   value |-> continuedFractionApprox(decimal)]

\* a slip that tries the half-integer check before the integer check
toRationalReturnHalfFirst(decimal) ==
    IF LtPrecision(RAbs(RSub(decimal, Num(2))))
    THEN [at |-> "2", value |-> [numerator |-> 2, denominator |-> 1]]
    ELSE IF LtPrecision(RAbs(RSub(decimal, Num(1))))
    THEN [at |-> "1", value |-> [numerator |-> 1, denominator |-> 1]]
    ELSE IF LtPrecision(RAbs(RSub(decimal, Rat(2, 3))))
    THEN [at |-> "2/3", value |-> [numerator |-> 2, denominator |-> 3]]
    ELSE LET reciprocal == RDiv(Num(2), decimal)
             doubled == RMul(reciprocal, Num(2))
         IN  IF RLt(Num(0), decimal)
                /\ LtPrecision(RAbs(RSub(doubled, Num(MathRound(doubled)))))
             THEN [at |-> "half-integer",
                   value |-> [numerator |-> 4, denominator |-> MathRound(doubled)]]
             ELSE IF RLt(Num(0), decimal)
                     /\ LtPrecision(RAbs(RSub(reciprocal,
                                              Num(MathRound(reciprocal)))))
             THEN [at |-> "integer",
                   value |-> [numerator |-> 2,
                              denominator |-> MathRound(reciprocal)]]
             ELSE [at |-> "continued-fraction",
                   value |-> continuedFractionApprox(decimal)]

\* the return statement toRational reaches, and the value it returns there
toRationalReturn(decimal) ==
    IF LtPrecision(RAbs(RSub(decimal, Num(2))))
    THEN [at |-> "2", value |-> [numerator |-> 2, denominator |-> 1]]
    ELSE IF LtPrecision(RAbs(RSub(decimal, Num(1))))
    THEN [at |-> "1", value |-> [numerator |-> 1, denominator |-> 1]]
    ELSE IF LtPrecision(RAbs(RSub(decimal, Rat(2, 3))))
    THEN [at |-> "2/3", value |-> [numerator |-> 2, denominator |-> 3]]
    ELSE LET reciprocal == RDiv(Num(2), decimal)
             doubled == RMul(reciprocal, Num(2))
         IN  IF RLt(Num(0), decimal)
                /\ LtPrecision(RAbs(RSub(reciprocal, Num(MathRound(reciprocal)))))
             THEN [at |-> "integer",
                   value |-> [numerator |-> 2,
                              denominator |-> MathRound(reciprocal)]]
             ELSE IF RLt(Num(0), decimal)
                     /\ LtPrecision(RAbs(RSub(doubled, Num(MathRound(doubled)))))
             THEN [at |-> "half-integer",
                   value |-> [numerator |-> 4, denominator |-> MathRound(doubled)]]
             ELSE [at |-> "continued-fraction",
                   value |-> continuedFractionApprox(decimal)]

toRational(decimal) == toRationalReturn(decimal).value

\* the rationals of lcmOfRationalNumbers: numbers.map(toRational)
toRationals(numbers) ==
    [i \in 1..Len(numbers) |->
        Only({ toRational(decimal) : decimal \in { numbers[i] } })]

\* lcmNumerator and gcdDenominator after the loop has handled rationals[1..k]
RECURSIVE lcmNumerator(_, _)
lcmNumerator(rationals, k) ==
    IF k = 1 THEN rationals[1].numerator
    ELSE lcm(lcmNumerator(rationals, k - 1), rationals[k].numerator)

\* a slip that folds the denominators with lcm instead of gcd
RECURSIVE gcdDenominatorLcm(_, _)
gcdDenominatorLcm(rationals, k) ==
    IF k = 1 THEN rationals[1].denominator
    ELSE lcm(gcdDenominatorLcm(rationals, k - 1), rationals[k].denominator)

RECURSIVE gcdDenominator(_, _)
gcdDenominator(rationals, k) ==
    IF k = 1 THEN rationals[1].denominator
    ELSE gcd(gcdDenominator(rationals, k - 1), rationals[k].denominator)

lcmOfRationalNumbers(numbers) ==
    Only({ Rat(lcmNumerator(rationals, Len(rationals)),
               gcdDenominator(rationals, Len(rationals))) :
           rationals \in { toRationals(numbers) } })

calculateLCMOfPeriods(periods) ==
    LET piMultiples == [i \in 1..Len(periods) |-> OverPi(periods[i])]
    IN  TimesPi(lcmOfRationalNumbers(piMultiples))

\* [2 * Math.PI, Math.PI, (2 * Math.PI) / 3]
compositePeriods == << TimesPi(Num(2)), TimesPi(Num(1)), TimesPi(Rat(2, 3)) >>

\* (2 * Math.PI) / omega
integratingPeriod(omega) == TimesPi(RDiv(Num(2), omega))

\* a resolver that leaves the component periods out
calculateOrthogonalPeriodForOmegaAlone(omega) ==
    calculateLCMOfPeriods(<< integratingPeriod(omega) >>)

calculateOrthogonalPeriodForOmega(omega) ==
    calculateLCMOfPeriods(Append(compositePeriods, integratingPeriod(omega)))

calculateCompositePeriod == calculateLCMOfPeriods(compositePeriods)


(***************************************************************************)
(* State: one IntegralVisualizer object and the page it draws on.          *)
(***************************************************************************)
VARIABLES
    this,          \* the fields of the IntegralVisualizer object
    page,          \* the texts on the page: slider labels, titles, formula
    initialized,   \* initialize() has run: the slider listeners are registered
    call           \* the last direct method call: its arguments and result

vars == << this, page, initialized, call >>

\* a field that has not been assigned yet, and the "no data" marker of a series
undefined == "undefined"
null == << "null" >>

calculateOrthogonalPeriod(self) ==
    calculateOrthogonalPeriodForOmega(self.angularFrequency)

(***************************************************************************)
(* calculateMaxOrthogonalPeriod.  The loop adds sliderStep = 0.1 to a      *)
(* double that starts at 0.5; sliderSumRounding[i + 1] is the sign of the  *)
(* rounding error the IEEE-754 sum carries after i additions (0.5, 0.6,    *)
(* 0.7, 0.7999999999999999, ..., 2.9000000000000012, 3.0000000000000013).  *)
(* The error is below 2e-15, so toRational (tolerance 1e-10) sees the      *)
(* nominal value k/10, but the loop test omega <= sliderMax sees the sign. *)
(***************************************************************************)
sliderMin == Rat(1, 2)
sliderMax == Num(3)
sliderStep == Rat(1, 10)

sliderSumRounding ==
    << 0, 0, 0, -1, -1, -1, -1, 0, 0, 1, 1, 1, 1,
       1, 1, 1, 1, 1, 1, 1, 1, 1, 1, 1, 1, 1 >>

\* the nominal value of omega after i additions
loopOmega(i) == RAdd(sliderMin, RMul(Num(i), sliderStep))

\* omega <= sliderMax for the double held after i additions
loopTest(i) ==
    \/ RLt(loopOmega(i), sliderMax)
    \/ loopOmega(i) = sliderMax /\ sliderSumRounding[i + 1] <= 0

\* the number of iterations the for loop runs: the first i whose test fails
loopIterations ==
    CHOOSE n \in 0..Len(sliderSumRounding) :
        ~loopTest(n) /\ \A j \in 0..(n - 1) : loopTest(j)

\* the values omega takes in the loop body
scannedOmegas == { loopOmega(i) : i \in 0..(loopIterations - 1) }

\* the largest of a non-empty set of periods
maxOf(periods) == CHOOSE m \in periods : \A p \in periods : RLe(OverPi(p), OverPi(m))

\* a slip that keeps the smallest scanned period instead of the largest
calculateMaxOrthogonalPeriodMin ==
    LET periods == { calculateOrthogonalPeriodForOmega(omega) : omega \in scannedOmegas }
    IN  CHOOSE m \in periods : \A p \in periods : RLe(OverPi(m), OverPi(p))

\* maxPeriod starts at 0 and is raised by Math.max to each scanned period
calculateMaxOrthogonalPeriod ==
    maxOf({ TimesPi(Num(0)) } \cup
          { calculateOrthogonalPeriodForOmega(omega) : omega \in scannedOmegas })

(***************************************************************************)
(* QuadratureEngine.                                                       *)
(***************************************************************************)
\* the sum the loop adds for the pairs (l, l+1) .. (h, h+1), split in halves so
\* that the evaluation stays shallow; dt = r * pi
RECURSIVE trapezoidSum(_, _, _, _)
trapezoidSum(productData, dt, l, h) ==
    IF l > h THEN TimesPi(Num(0))
    ELSE IF l = h
    THEN TimesPi(RDiv(RMul(RAdd(productData[l], productData[l + 1]), OverPi(dt)),
                      Num(2)))
    ELSE LET m == (l + h) \div 2
         IN  TimesPi(RAdd(OverPi(trapezoidSum(productData, dt, l, m)),
                          OverPi(trapezoidSum(productData, dt, m + 1, h))))

\* a closed rule: the loop also adds the pair (last sample, first sample)
numericalIntegrationClosed(self, productData) ==
    IF Len(productData) = 0 THEN Num(0)
    ELSE Only({ LET n == Len(productData)
                    dt == TimesPi(RDiv(OverPi(integrationPeriod), Num(n)))
                    open == trapezoidSum(productData, dt, 1, n - 1)
                    wrap == RDiv(RMul(RAdd(productData[n], productData[1]),
                                      OverPi(dt)), Num(2))
                IN  RMul(RDiv(Num(2), OverPi(integrationPeriod)),
                         RAdd(OverPi(open), wrap)) :
                integrationPeriod \in { calculateOrthogonalPeriod(self) } })

\* an integration without the 2/T normalization
numericalIntegrationUnnormalized(self, productData) ==
    IF Len(productData) = 0 THEN Num(0)
    ELSE Only({ LET dt == TimesPi(RDiv(OverPi(integrationPeriod),
                                       Num(Len(productData))))
                IN  OverPi(trapezoidSum(productData, dt, 1, Len(productData) - 1)) :
                integrationPeriod \in { calculateOrthogonalPeriod(self) } })

\* trapezoids of width T / (n - 1): the samples taken as endpoint-inclusive
numericalIntegrationSpacing(self, productData) ==
    IF Len(productData) <= 1 THEN Num(0)
    ELSE Only({ LET dt == TimesPi(RDiv(OverPi(integrationPeriod),
                                       Num(Len(productData) - 1)))
                    integral == trapezoidSum(productData, dt, 1,
                                             Len(productData) - 1)
                IN  RMul(RDiv(Num(2), OverPi(integrationPeriod)), OverPi(integral)) :
                integrationPeriod \in { calculateOrthogonalPeriod(self) } })

numericalIntegration(self, productData) ==
    IF Len(productData) = 0 THEN Num(0)
    ELSE Only({ LET dt == TimesPi(RDiv(OverPi(integrationPeriod),
                                       Num(Len(productData))))
                    integral == trapezoidSum(productData, dt, 1,
                                             Len(productData) - 1)
                IN  \* (2 / (T * pi)) * (I * pi)
                    RMul(RDiv(Num(2), OverPi(integrationPeriod)), OverPi(integral)) :
                integrationPeriod \in { calculateOrthogonalPeriod(self) } })

\* time.toFixed(2): a display string, kept as the formatting request
toFixed2(time) == << "toFixed(2)", time >>

\* a window that is open at its upper end: time < end instead of time <= end
splitDataHalfOpen(data, times, period) ==
    LET start == RNeg(RDiv(OverPi(period), Num(2)))
        end == RDiv(OverPi(period), Num(2))
        in(i) == RLe(start, OverPi(times[i])) /\ RLt(OverPi(times[i]), end)
        labs == [i \in 1..Len(times) |-> toFixed2(times[i])]
    IN  [inside |->
            [data |-> [i \in 1..Len(times) |-> IF in(i) THEN data[i] ELSE null],
             labels |-> labs],
         outside |->
            [data |-> [i \in 1..Len(times) |-> IF in(i) THEN null ELSE data[i]],
             labels |-> labs],
         allLabels |-> labs]

\* a split that pushes no null: each series keeps only its own samples
splitDataCompact(data, times, period) ==
    LET start == RNeg(RDiv(OverPi(period), Num(2)))
        end == RDiv(OverPi(period), Num(2))
        in(i) == RLe(start, OverPi(times[i])) /\ RLe(OverPi(times[i]), end)
        indices == [i \in 1..Len(times) |-> i]
        isIn(i) == in(i)
        isOut(i) == ~in(i)
        insideIndices == SelectSeq(indices, isIn)
        outsideIndices == SelectSeq(indices, isOut)
        labs == [i \in 1..Len(times) |-> toFixed2(times[i])]
    IN  [inside |->
            [data |-> [k \in 1..Len(insideIndices) |-> data[insideIndices[k]]],
             labels |-> labs],
         outside |->
            [data |-> [k \in 1..Len(outsideIndices) |-> data[outsideIndices[k]]],
             labels |-> labs],
         allLabels |-> labs]

\* the loop shared by both split operations, for the window [-period/2, period/2]
splitData(data, times, period) ==
    LET start == RNeg(RDiv(OverPi(period), Num(2)))
        end == RDiv(OverPi(period), Num(2))
        in(i) == RLe(start, OverPi(times[i])) /\ RLe(OverPi(times[i]), end)
        labs == [i \in 1..Len(times) |-> toFixed2(times[i])]
    IN  [inside |->
            [data |-> [i \in 1..Len(times) |-> IF in(i) THEN data[i] ELSE null],
             labels |-> labs],
         outside |->
            [data |-> [i \in 1..Len(times) |-> IF in(i) THEN null ELSE data[i]],
             labels |-> labs],
         allLabels |-> labs]

splitDataByIntegrationPeriod(self, data, times) ==
    Only({ splitData(data, times, integrationPeriod) :
               integrationPeriod \in { calculateOrthogonalPeriod(self) } })

splitDataByCompositePeriod(self, data, times) ==
    Only({ splitData(data, times, compositePeriod) :
               compositePeriod \in { calculateCompositePeriod } })

\* Math.round(value).toString()
\* value.toFixed(0): ties away from zero, and a minus sign for every
\* negative value, "-0" included
roundToStringToFixed(value) ==
    IF IsNaN(value) THEN "NaN"
    ELSE IF value = Infinity THEN "Infinity"
    ELSE IF value = RNeg(Infinity) THEN "-Infinity"
    ELSE IF RLt(value, Num(0)) THEN "-" \o ToString(MathRound(RAbs(value)))
    ELSE ToString(MathRound(value))

\* Math.round(value).toString(); Math.round gives -0 on [-0.5, 0) and
\* (-0).toString() is "0"
roundToString(value) ==
    IF IsNaN(value) THEN "NaN"
    ELSE IF value = Infinity THEN "Infinity"
    ELSE IF value = RNeg(Infinity) THEN "-Infinity"
    ELSE ToString(MathRound(value))

\* a slip that drops the sign of a value near -0.707
formatIntegralValueUnsigned(value) ==
    IF RLt(RAbs(value), Rat(1, 1000)) THEN "0"
    ELSE IF RLt(RAbs(RSub(RAbs(value), Rat(707, 1000))), Rat(1, 100)) THEN "0.707"
    ELSE roundToString(value)

formatIntegralValue(value) ==
    IF RLt(RAbs(value), Rat(1, 1000)) THEN "0"
    ELSE IF RLt(RAbs(RSub(RAbs(value), Rat(707, 1000))), Rat(1, 100))
    THEN (IF RLt(value, Num(0)) THEN "-0.707" ELSE "0.707")
    ELSE roundToString(value)

(***************************************************************************)
(* The sampler.  Math.cos and Math.sin are transcendental; on an argument  *)
(* r * pi they are modelled by the square wave with the sign, zeros,       *)
(* period and symmetry of the cosine.  The model so carries which samples  *)
(* enter which computation, not the numeric value of a coefficient.        *)
(***************************************************************************)
MathCos(arg) ==
    LET r == OverPi(arg)
        m == r[1] % (2 * r[2])
    IN  IF 2 * m < r[2] \/ 2 * m > 3 * r[2] THEN 1
        ELSE IF 2 * m = r[2] \/ 2 * m = 3 * r[2] THEN 0
        ELSE -1

MathSin(arg) == MathCos(TimesPi(RSub(OverPi(arg), Rat(1, 2))))

\* Math.cos(time) + Math.sin(2 * time) + Math.cos(3 * time + Math.PI / 4)
compositeFunction(time) ==
    Num(MathCos(time)
        + MathSin(TimesPi(RMul(Num(2), OverPi(time))))
        + MathCos(TimesPi(RAdd(RMul(Num(3), OverPi(time)), Rat(1, 4)))))

\* compositeFunction(time) * Math.cos(this.angularFrequency * time), and with sin
cosineProductAt(self, time) ==
    RMul(compositeFunction(time),
         Num(MathCos(TimesPi(RMul(self.angularFrequency, OverPi(time))))))

sineProductAt(self, time) ==
    RMul(compositeFunction(time),
         Num(MathSin(TimesPi(RMul(self.angularFrequency, OverPi(time))))))

\* tMin + (i / points) * (tMax - tMin) for the window [-period/2, period/2];
\* the source's index i runs from 0, a sequence's from 1
timeAt(period, i) ==
    LET tMin == RNeg(RDiv(OverPi(period), Num(2)))
        tMax == RDiv(OverPi(period), Num(2))
    IN  TimesPi(RAdd(tMin, RMul(Rat(i, points), RSub(tMax, tMin))))

\* points + 1 times from -period/2 to period/2
timeGrid(period) == [i \in 1..(points + 1) |-> timeAt(period, i - 1)]

generateIntegrationTimeArray(self) == timeGrid(calculateOrthogonalPeriod(self))

\* a display grid that follows the integration window of the current frequency
generateTimeArrayPerFrequency(self) == timeGrid(calculateOrthogonalPeriod(self))

generateTimeArray(self) == timeGrid(self.maxDisplayPeriod)

getTimeRange(self) ==
    [min |-> TimesPi(RNeg(RDiv(OverPi(self.maxDisplayPeriod), Num(2)))),
     max |-> TimesPi(RDiv(OverPi(self.maxDisplayPeriod), Num(2))),
     period |-> self.maxDisplayPeriod]

\* a cosine coefficient integrated from the display samples
calculateCosineIntegralDisplay(self) ==
    numericalIntegration(self, self.waveforms.cosineProduct)

calculateCosineIntegral(self) ==
    numericalIntegration(self, self.integrationData.cosineProduct)

calculateSineIntegral(self) ==
    numericalIntegration(self, self.integrationData.sineProduct)

\* Math.max(...compositeWave.map(Math.abs))
maxAbs(wave) ==
    LET values == { RAbs(wave[i]) : i \in 1..Len(wave) }
    IN  CHOOSE m \in values : \A v \in values : RLe(v, m)

\* the object after the sampling half of calculateWaveforms()
sampleWaveforms(self) ==
    Only({ LET displayTime(i) == timeAt(self.maxDisplayPeriod, i - 1)
               integrationTime(i) == timeAt(integrationPeriod, i - 1)
               compositeWave ==
                   [i \in 1..(points + 1) |-> compositeFunction(displayTime(i))]
           IN  [self EXCEPT
                   !.maxAmplitude = maxAbs(compositeWave),
                   !.timeArray = generateTimeArray(self),
                   !.waveforms =
                       [composite |-> compositeWave,
                        cosineProduct |->
                            [i \in 1..(points + 1) |->
                                cosineProductAt(self, displayTime(i))],
                        sineProduct |->
                            [i \in 1..(points + 1) |->
                                sineProductAt(self, displayTime(i))],
                        cosineIntegral |-> undefined,
                        sineIntegral |-> undefined],
                   !.integrationData =
                       [cosineProduct |->
                            [i \in 1..(points + 1) |->
                                cosineProductAt(self, integrationTime(i))],
                        sineProduct |->
                            [i \in 1..(points + 1) |->
                                sineProductAt(self, integrationTime(i))]]] :
           integrationPeriod \in { calculateOrthogonalPeriod(self) } })

\* the object after the integrating half of calculateWaveforms()
integrateWaveforms(self) ==
    [self EXCEPT
        !.waveforms.cosineIntegral = calculateCosineIntegral(self),
        !.waveforms.sineIntegral = calculateSineIntegral(self)]

\* the object after calculateWaveforms()
calculateWaveforms(self) ==
    Only({ integrateWaveforms(sampled) : sampled \in { sampleWaveforms(self) } })

(***************************************************************************)
(* createWaveformCharts: a chart is created on the first call and updated  *)
(* on the later ones, with the same data, labels and scales either way.    *)
(***************************************************************************)
\* x and y scales of getChartOptions / of the update methods
chartScales(self) ==
    LET timeRange == getTimeRange(self)
    IN  [x |-> [min |-> timeRange.min, max |-> timeRange.max,
                stepSize |-> TimesPi(RDiv(OverPi(timeRange.period), Num(8)))],
         y |-> [min |-> RNeg(RMul(self.maxAmplitude, Rat(11, 10))),
                max |-> RMul(self.maxAmplitude, Rat(11, 10))]]

compositeChart(self) ==
    LET split == splitDataByCompositePeriod(self, self.waveforms.composite,
                                            self.timeArray)
    IN  [labels |-> split.allLabels,
         datasets |-> << split.inside.data, split.outside.data >>,
         scales |-> chartScales(self)]

integrationChart(self, productData, integralValue) ==
    LET split == splitDataByIntegrationPeriod(self, productData, self.timeArray)
        integralLine == [i \in 1..Len(self.timeArray) |-> integralValue]
    IN  [labels |-> split.allLabels,
         datasets |-> << split.inside.data, split.outside.data, integralLine >>,
         scales |-> chartScales(self)]

\* the object after createWaveformCharts()
createWaveformCharts(self) ==
    [self EXCEPT !.charts =
        [composite |-> compositeChart(self),
         cosineIntegration |->
             integrationChart(self, self.waveforms.cosineProduct,
                              self.waveforms.cosineIntegral),
         sineIntegration |->
             integrationChart(self, self.waveforms.sineProduct,
                              self.waveforms.sineIntegral)]]

(***************************************************************************)
(* Labels, titles and the dynamic formula.                                 *)
(***************************************************************************)
\* x.toFixed(1) and x.toFixed(2) for x >= 0 that is no rounding tie
toFixed1(x) ==
    LET t == MathRound(RMul(x, Num(10)))
    IN  ToString(t \div 10) \o "." \o ToString(t % 10)

toFixedTwo(x) ==
    LET t == MathRound(RMul(x, Num(100)))
    IN  ToString(t \div 100) \o "." \o ToString((t \div 10) % 10) \o ToString(t % 10)

\* Math.PI where a plain number of radians is divided by it: the phase
\* slider's values j/100 stay clear of every threshold by more than 355/113
\* differs from pi
MathPI == Rat(355, 113)

\* a phase is Math.PI / 4 ([pi |-> 1/4]) or a parsed slider value ([rad |-> x])
Radians(x) == [rad |-> x]

formatPhaseValue(phase) ==
    LET piRatio == IF "pi" \in DOMAIN phase THEN phase.pi
                   ELSE RDiv(phase.rad, MathPI)
        near(c) == RLt(RAbs(RSub(piRatio, c)), Rat(1, 100))
    IN  IF RLt(RAbs(piRatio), Rat(1, 100)) THEN "0"
        ELSE IF near(Rat(1, 4)) THEN "pi/4"
        ELSE IF near(Rat(1, 2)) THEN "pi/2"
        ELSE IF near(Rat(3, 4)) THEN "3pi/4"
        ELSE IF near(Num(1)) THEN "pi"
        ELSE IF near(Rat(5, 4)) THEN "5pi/4"
        ELSE IF near(Rat(3, 2)) THEN "3pi/2"
        ELSE IF near(Rat(7, 4)) THEN "7pi/4"
        ELSE IF near(Num(2)) THEN "2pi"
        ELSE IF "pi" \in DOMAIN phase THEN toFixedTwo(RMul(phase.pi, MathPI))
        ELSE toFixedTwo(phase.rad)

\* the components of f(t) that updateDynamicFormula reveals
updateDynamicFormula(self) ==
    IF RLt(self.angularFrequency, Num(1)) THEN "..."
    ELSE IF RLt(self.angularFrequency, Num(2)) THEN "cos(t) + ..."
    ELSE IF RLt(self.angularFrequency, Num(3)) THEN "cos(t) + sin(2t) + ..."
    ELSE "cos(t) + sin(2t) + 0.707cos(3t) - 0.707sin(3t)"

(***************************************************************************)
(* Discovery effects.  A document holds the class list of the two canvases *)
(* that can glow, the badges appended to its body and the queue of the     *)
(* pending setTimeout callbacks; all delays are 3000 ms, so the callbacks  *)
(* run in the order in which they were scheduled.                          *)
(***************************************************************************)
Canvases == { "nonPhaseShiftedCosineChart", "sineWaveChart" }

GlowClasses == { "discovery-glow-blue", "discovery-glow-green" }

\* a document with no effect showing and no timer pending
EmptyDocument ==
    [classList |-> [canvas \in Canvases |-> {}],
     badges |-> {},
     timers |-> << >>]

\* the identity of a newly created badge element
NewBadge(document) ==
    CHOOSE id \in 0..Cardinality(document.badges) :
        \A badge \in document.badges : badge.id # id

\* an effect that shows the glow and the badge and schedules no removal
triggerDiscoveryEffectNoTimeout(self, document, canvasId, color) ==
    LET glowClass == IF color = "blue" THEN "discovery-glow-blue"
                     ELSE "discovery-glow-green"
        badge == [id |-> NewBadge(document),
                  className |-> "discovery-badge discovery-badge-" \o color,
                  innerHTML |-> toFixed1(self.angularFrequency)]
    IN  [document EXCEPT
            !.classList[canvasId] = (@ \ GlowClasses) \cup { glowClass },
            !.badges = @ \cup { badge }]

\* the document after triggerDiscoveryEffect(canvasId, color), which calls
\* showDiscoveryBadge(canvas, color): the badge's timer is set first
triggerDiscoveryEffect(self, document, canvasId, color) ==
    LET glowClass == IF color = "blue" THEN "discovery-glow-blue"
                     ELSE "discovery-glow-green"
        badge == [id |-> NewBadge(document),
                  className |-> "discovery-badge discovery-badge-" \o color,
                  innerHTML |-> toFixed1(self.angularFrequency)]
    IN  [document EXCEPT
            !.classList[canvasId] = (@ \ GlowClasses) \cup { glowClass },
            !.badges = @ \cup { badge },
            !.timers = @ \o << [remove |-> "badge", badge |-> badge.id],
                               [remove |-> "glow", canvas |-> canvasId,
                                glowClass |-> glowClass] >>]

\* |omega - target| < tolerance, tolerance = 0.05
NearFrequency(omega, target) == RLt(RAbs(RSub(omega, target)), Rat(1, 20))

IsCosineDiscovery(omega) ==
    NearFrequency(omega, Num(1)) \/ NearFrequency(omega, Num(3))

IsSineDiscovery(omega) ==
    NearFrequency(omega, Num(2)) \/ NearFrequency(omega, Num(3))

\* the document after checkForDiscoveries()
checkForDiscoveries(self, document) ==
    LET cosine == IF IsCosineDiscovery(self.angularFrequency)
                  THEN triggerDiscoveryEffect(self, document,
                                              "nonPhaseShiftedCosineChart", "blue")
                  ELSE document
    IN  IF IsSineDiscovery(self.angularFrequency)
        THEN triggerDiscoveryEffect(self, cosine, "sineWaveChart", "green")
        ELSE cosine

\* the titles after updateTitles(); a title keeps the two parts of its LaTeX
\* string that vary
updateTitleTexts(self, texts) ==
    [texts EXCEPT
        !.cosineTitle = << toFixed1(self.angularFrequency),
                           formatIntegralValue(calculateCosineIntegral(self)) >>,
        !.sineTitle = << toFixed1(self.angularFrequency),
                         formatIntegralValue(calculateSineIntegral(self)) >>,
        !.dynamicFormula = updateDynamicFormula(self)]

\* the page after updateTitles(): the titles, and the discovery effects on a
\* page whose document is part of the state (under Spec the page holds the
\* texts only)
updateTitles(self, texts) ==
    IF "document" \in DOMAIN texts
    THEN [updateTitleTexts(self, texts) EXCEPT
             !.document = checkForDiscoveries(self, @)]
    ELSE updateTitleTexts(self, texts)

\* the object after the first two statements of updateAllCharts(); the third,
\* updateTitles(), writes to the page
updateAllCharts(self) ==
    Only({ createWaveformCharts(calculated) :
               calculated \in { calculateWaveforms(self) } })

(***************************************************************************)
(* Construction: new IntegralVisualizer(config).                           *)
(***************************************************************************)
NoCall == [op |-> "none"]

\* the object new IntegralVisualizer({ initialAngularFrequency: omega }) builds
FreshVisualizer(omega) ==
    [phaseShift |-> TimesPi(Rat(1, 4)),
     angularFrequency |-> omega,
     charts |-> [composite |-> undefined, cosineIntegration |-> undefined,
                 sineIntegration |-> undefined],
     maxDisplayPeriod |-> calculateMaxOrthogonalPeriod,
     timeArray |-> undefined,
     maxAmplitude |-> undefined,
     waveforms |-> undefined,
     integrationData |-> undefined]

Constructed(omega0) ==
    /\ this = [phaseShift |-> TimesPi(Rat(1, 4)),
               angularFrequency |-> omega0,
               charts |-> [composite |-> undefined, cosineIntegration |-> undefined,
                           sineIntegration |-> undefined],
               maxDisplayPeriod |-> calculateMaxOrthogonalPeriod,
               timeArray |-> undefined,
               maxAmplitude |-> undefined,
               waveforms |-> undefined,
               integrationData |-> undefined]
    /\ page = [phaseShiftValue |-> undefined, angularFrequencyValue |-> undefined,
               cosineTitle |-> undefined, sineTitle |-> undefined,
               dynamicFormula |-> undefined]
    /\ initialized = FALSE

\* the values of the frequency slider: 0.5, 0.6, ..., 3.0
SliderGrid == { Rat(k, 10) : k \in 5..30 }

(***************************************************************************)
(* SpecCalls: direct calls of the resolver and quadrature methods on a     *)
(* constructed visualizer, with arguments drawn from bounded sets.         *)
(***************************************************************************)
\* config.initialAngularFrequency: 1, 1/2, ..., and 250.25, a frequency whose
\* analysis period is rationalized to 0/1
InitOmegas ==
    { Rat(1, 1 + k) : k \in 0..MaxInitOmegaStep } \cup { Rat(1001, 4) }
OmegaCallInputs ==
    { Rat(p, q) : p \in 1..MaxOmegaNum, q \in 1..MaxOmegaDen }
    \cup { Rat(-p, q) : p \in 0..MaxNegOmegaNum, q \in 1..MaxNegOmegaDen }
DecimalInputs ==
    { Rat(p, q) : p \in 1..MaxDecimalNum, q \in 1..MaxDecimalDen }
    \cup { Rat(3, 100 * k) : k \in 1..MaxSmallDecimal }
PeriodValues ==
    { TimesPi(Rat(p, q)) : p \in 1..MaxPeriodNum, q \in 1..MaxPeriodDen }
PeriodSequences == UNION { [1..n -> PeriodValues] : n \in 1..MaxPeriods }
SampleValues == { Num(-1), Num(0), Rat(1, 2), Num(2) }
SampleSeries == UNION { [1..n -> SampleValues] : n \in 0..MaxLen }
SplitValues == { Num(1), Num(2) }
SplitTimes == { TimesPi(Rat(k, 2)) : k \in -MaxTimeHalf..MaxTimeHalf }
SplitArrays ==
    UNION { [1..n -> SplitValues \X SplitTimes] : n \in 0..MaxSplitLen }
FormatInputs ==
    { Rat(n, 200) : n \in -MaxFormatStep..MaxFormatStep }
    \cup { Rat(s * k, 10000) : s \in {-1, 1},
                               k \in {3, 9, 10, 11, 6969, 6970, 7060, 7170, 7171} }

InitCalls ==
    /\ \E omega0 \in InitOmegas : Constructed(omega0)
    /\ call = NoCall

CallResolvePeriod(omega) ==
    LET allPeriods == Append(compositePeriods, integratingPeriod(omega))
        rationals == toRationals([i \in 1..4 |-> OverPi(allPeriods[i])])
    IN  /\ call = NoCall
        /\ call' = [op |-> "calculateOrthogonalPeriodForOmega",
                    omega |-> omega,
                    rationals |-> rationals,
                    lcmNumerator |-> lcmNumerator(rationals, 4),
                    gcdDenominator |-> gcdDenominator(rationals, 4),
                    result |-> calculateOrthogonalPeriodForOmega(omega)]
        /\ UNCHANGED << this, page, initialized >>

CallNumericalIntegration(productData) ==
    /\ call = NoCall
    /\ call' = [op |-> "numericalIntegration",
                productData |-> productData,
                result |-> numericalIntegration(this, productData)]
    /\ UNCHANGED << this, page, initialized >>

CallSplitByIntegrationPeriod(pairs) ==
    LET data == [i \in 1..Len(pairs) |-> pairs[i][1]]
        times == [i \in 1..Len(pairs) |-> pairs[i][2]]
    IN  /\ call = NoCall
        /\ call' = [op |-> "splitDataByIntegrationPeriod",
                    data |-> data, timeArray |-> times,
                    result |-> splitDataByIntegrationPeriod(this, data, times)]
        /\ UNCHANGED << this, page, initialized >>

CallSplitByCompositePeriod(pairs) ==
    LET data == [i \in 1..Len(pairs) |-> pairs[i][1]]
        times == [i \in 1..Len(pairs) |-> pairs[i][2]]
    IN  /\ call = NoCall
        /\ call' = [op |-> "splitDataByCompositePeriod",
                    data |-> data, timeArray |-> times,
                    result |-> splitDataByCompositePeriod(this, data, times)]
        /\ UNCHANGED << this, page, initialized >>

CallFormatIntegralValue(value) ==
    /\ call = NoCall
    /\ call' = [op |-> "formatIntegralValue", value |-> value,
                result |-> formatIntegralValue(value)]
    /\ UNCHANGED << this, page, initialized >>

CallToRational(decimal) ==
    /\ call = NoCall
    /\ call' = [op |-> "toRational", decimal |-> decimal,
                at |-> toRationalReturn(decimal).at,
                result |-> toRational(decimal)]
    /\ UNCHANGED << this, page, initialized >>

CallLCMOfPeriods(periods) ==
    LET rationals == toRationals([i \in 1..Len(periods) |-> OverPi(periods[i])])
    IN  /\ call = NoCall
        /\ call' = [op |-> "calculateLCMOfPeriods", periods |-> periods,
                    rationals |-> rationals,
                    result |-> calculateLCMOfPeriods(periods)]
        /\ UNCHANGED << this, page, initialized >>

\* scanned: the values omega has when the loop body runs
CallMaxOrthogonalPeriod ==
    /\ call = NoCall
    /\ call' = [op |-> "calculateMaxOrthogonalPeriod",
                scanned |-> scannedOmegas,
                result |-> calculateMaxOrthogonalPeriod]
    /\ UNCHANGED << this, page, initialized >>

\* the call returns and its record is dropped
Return ==
    /\ call # NoCall
    /\ call' = NoCall
    /\ UNCHANGED << this, page, initialized >>

\* the arguments a caller may pass: none while a call is in progress
Callable(arguments) == IF call = NoCall THEN arguments ELSE {}

\* one call at a time: each method runs to completion before the next is made
NextCalls ==
    \/ \E omega \in Callable(OmegaCallInputs) : CallResolvePeriod(omega)
    \/ \E productData \in Callable(SampleSeries) :
           CallNumericalIntegration(productData)
    \/ \E pairs \in Callable(SplitArrays) : CallSplitByIntegrationPeriod(pairs)
    \/ \E pairs \in Callable(SplitArrays) : CallSplitByCompositePeriod(pairs)
    \/ \E value \in Callable(FormatInputs) : CallFormatIntegralValue(value)
    \/ \E decimal \in Callable(DecimalInputs) : CallToRational(decimal)
    \/ \E periods \in Callable(PeriodSequences) : CallLCMOfPeriods(periods)
    \/ CallMaxOrthogonalPeriod
    \/ Return

SpecCalls == InitCalls /\ [][NextCalls]_vars

(***************************************************************************)
(* Spec: one visualizer on its page, driven by the two sliders.            *)
(***************************************************************************)
\* values the frequency input handler is given: the slider grid 0.5 .. 3.0 in
\* steps of 0.1, and values of the range 0.5 .. 3.0 between two grid steps
OffGrid == { Rat(10 * (5 + k) + 3, 100) : k \in 0..MaxOffGridStep }
FrequencyInputs == SliderGrid \cup OffGrid

\* values of the phase slider (min 0, max 2 pi, step 0.01)
PhaseInputs == { Radians(Rat(79 * j, 100)) : j \in 0..MaxPhaseStep }

\* config.initialAngularFrequency || 1.0 with the default configuration
Init ==
    /\ Constructed(Num(1))
    /\ call = NoCall

\* initialize(): initializeCharts, initializeControls, updateAllCharts
Initialize ==
    /\ ~initialized
    /\ initialized' = TRUE
    /\ this' = Only({ updateAllCharts(charted) :
                      charted \in { createWaveformCharts(calculateWaveforms(this)) } })
    /\ page' = updateTitles(this',
                   [page EXCEPT
                       !.phaseShiftValue = formatPhaseValue(this.phaseShift),
                       !.angularFrequencyValue = toFixed1(this.angularFrequency)])
    /\ UNCHANGED call

\* a listener that redraws before it stores the new frequency
AngularFrequencyInputStale(value) ==
    /\ initialized
    /\ this' = [updateAllCharts(this) EXCEPT !.angularFrequency = value]
    /\ page' = updateTitles(this',
                   [page EXCEPT !.angularFrequencyValue = toFixed1(value)])
    /\ UNCHANGED << initialized, call >>

\* the "input" listener of angularFrequencySlider
AngularFrequencyInput(value) ==
    /\ initialized
    /\ this' = updateAllCharts([this EXCEPT !.angularFrequency = value])
    /\ page' = updateTitles(this',
                   [page EXCEPT !.angularFrequencyValue = toFixed1(value)])
    /\ UNCHANGED << initialized, call >>

\* a listener that writes the phase label into the frequency label
PhaseShiftInputWrongLabel(value) ==
    /\ initialized
    /\ this' = updateAllCharts([this EXCEPT !.phaseShift = value])
    /\ page' = updateTitles(this',
                   [page EXCEPT !.angularFrequencyValue = formatPhaseValue(value)])
    /\ UNCHANGED << initialized, call >>

\* the "input" listener of phaseShiftSlider
PhaseShiftInput(value) ==
    /\ initialized
    /\ this' = updateAllCharts([this EXCEPT !.phaseShift = value])
    /\ page' = updateTitles(this',
                   [page EXCEPT !.phaseShiftValue = formatPhaseValue(value)])
    /\ UNCHANGED << initialized, call >>

Next ==
    \/ Initialize
    \/ \E value \in FrequencyInputs : AngularFrequencyInput(value)
    \/ \E value \in PhaseInputs : PhaseShiftInput(value)

Spec == Init /\ [][Next]_vars

(***************************************************************************)
(* SpecEffects: the visualizer on a page whose document is observed:       *)
(* initialization, frequency-change events and the firing of the timers    *)
(* that the discovery effects set.                                         *)
(***************************************************************************)
\* slider values with no discovery (0.5), a cosine discovery (1.0), a sine
\* discovery (2.0) and both (3.0)
EffectFrequencies == { Rat(1, 2), Num(1), Num(2), Num(3) }

InitEffects ==
    /\ this = FreshVisualizer(Num(1))
    /\ page = [phaseShiftValue |-> undefined, angularFrequencyValue |-> undefined,
               cosineTitle |-> undefined, sineTitle |-> undefined,
               dynamicFormula |-> undefined,
               document |-> EmptyDocument]
    /\ initialized = FALSE
    /\ call = NoCall

\* the slider values an event may carry: those whose effects fit the bound on
\* the pending timers
Schedulable ==
    IF initialized
    THEN { value \in EffectFrequencies :
               Len(page.document.timers)
                   + (IF IsCosineDiscovery(value) THEN 2 ELSE 0)
                   + (IF IsSineDiscovery(value) THEN 2 ELSE 0) <= MaxTimers }
    ELSE {}

\* the callback of the oldest pending timer runs
TimerFires ==
    /\ page.document.timers # << >>
    /\ page' = [page EXCEPT !.document =
           LET timer == Head(page.document.timers)
               fired == [page.document EXCEPT !.timers = Tail(@)]
           IN  IF timer.remove = "glow"
               THEN [fired EXCEPT !.classList[timer.canvas] = @ \ { timer.glowClass }]
               ELSE [fired EXCEPT
                        !.badges = { badge \in @ : badge.id # timer.badge }]]
    /\ UNCHANGED << this, initialized, call >>

NextEffects ==
    \/ Initialize
    \/ \E value \in Schedulable : AngularFrequencyInput(value)
    \/ TimerFires

SpecEffects == InitEffects /\ [][NextEffects]_vars

(***************************************************************************)
(* SpecCharts: the ChartManager of chart-utils.js.  this is the manager:   *)
(* this.charts[canvasId] is a Chart.js chart (exists, the instance, and    *)
(* meta[i], the hidden flag of getDatasetMeta(i): "null", "true" or        *)
(* "false") and this.datasetVisibility[canvasId] is the remembered         *)
(* visibility ("undefined" for an index never stored).  The source counts  *)
(* dataset indices from 0, a sequence from 1.                              *)
(***************************************************************************)
ChartCanvasIds == { "phaseShiftedCosineChart", "sineWaveChart" }

\* dataset.hidden: no dataset handed to createLineChart has the property
datasetHidden == FALSE

NoChart == [exists |-> FALSE, instance |-> 0, meta |-> << >>]

NoVisibility ==
    [defined |-> FALSE, of |-> [index \in 1..MaxDatasets |-> "undefined"]]

\* the empty object {} assigned to this.datasetVisibility[canvasId]
EmptyVisibility == [NoVisibility EXCEPT !.defined = TRUE]

\* new ChartManager()
NewChartManager ==
    [charts |-> [canvasId \in ChartCanvasIds |-> NoChart],
     datasetVisibility |-> [canvasId \in ChartCanvasIds |-> NoVisibility]]

\* meta.hidden !== true
NotHidden(meta) == IF meta # "true" THEN "true" ELSE "false"

\* Chart.js shows dataset index iff meta.hidden is false, or null with no
\* dataset.hidden
IsDatasetVisible(chart, index) ==
    IF chart.meta[index] = "null" THEN ~datasetHidden
    ELSE chart.meta[index] = "false"

\* the manager after restoreDatasetVisibility(canvasId, datasets)
restoreDatasetVisibility(self, canvasId) ==
    IF self.datasetVisibility[canvasId].defined
    THEN [self EXCEPT !.charts[canvasId].meta =
             [index \in 1..Len(@) |->
                 IF self.datasetVisibility[canvasId].of[index] = "false"
                 THEN "true" ELSE @[index]]]
    ELSE self

\* the visibility stored before an existing chart is destroyed
storeDatasetVisibility(self, canvasId) ==
    IF self.charts[canvasId].exists
    THEN [self EXCEPT !.datasetVisibility[canvasId] =
             [defined |-> TRUE,
              of |-> [index \in 1..MaxDatasets |->
                         IF index <= Len(self.charts[canvasId].meta)
                         THEN NotHidden(self.charts[canvasId].meta[index])
                         ELSE "undefined"]]]
    ELSE self

\* the chart new Chart(ctx, ...) builds from count datasets
NewChart(previous, count) ==
    [exists |-> TRUE, instance |-> 1 - previous.instance,
     meta |-> [index \in 1..count |-> "null"]]

\* a createLineChart that does not restore the remembered visibility
createLineChartNoRestore(self, canvasId, count) ==
    LET stored == storeDatasetVisibility(self, canvasId)
    IN  [stored EXCEPT !.charts[canvasId] = NewChart(@, count)]

\* the manager after createLineChart(canvasId, ...) with count datasets
createLineChart(self, canvasId, count) ==
    LET stored == storeDatasetVisibility(self, canvasId)
    IN  restoreDatasetVisibility(
            [stored EXCEPT !.charts[canvasId] = NewChart(@, count)], canvasId)

\* the manager after a click on the legend item of dataset index
handleLegendClick(self, canvasId, index) ==
    LET hidden == IF self.charts[canvasId].meta[index] = "null"
                  THEN (IF ~datasetHidden THEN "true" ELSE "false")
                  ELSE "null"
        visibility == IF self.datasetVisibility[canvasId].defined
                      THEN self.datasetVisibility[canvasId]
                      ELSE EmptyVisibility
    IN  [self EXCEPT
            !.charts[canvasId].meta[index] = hidden,
            !.datasetVisibility[canvasId] =
                [visibility EXCEPT !.of[index] = NotHidden(hidden)]]

\* the manager after destroyChart(canvasId)
destroyChart(self, canvasId) ==
    IF self.charts[canvasId].exists
    THEN [self EXCEPT
             !.charts[canvasId] = [NoChart EXCEPT !.instance = self.charts[canvasId].instance],
             !.datasetVisibility[canvasId] = NoVisibility]
    ELSE self

InitCharts ==
    /\ this = NewChartManager
    /\ page = [legend |-> "none"]
    /\ initialized = FALSE
    /\ call = NoCall

CreateLineChart(canvasId, count) ==
    /\ this' = createLineChart(this, canvasId, count)
    /\ UNCHANGED << page, initialized, call >>

\* a legend item exists for every dataset of an existing chart
LegendClick(canvasId, index) ==
    /\ this.charts[canvasId].exists
    /\ index <= Len(this.charts[canvasId].meta)
    /\ this' = handleLegendClick(this, canvasId, index)
    /\ UNCHANGED << page, initialized, call >>

DestroyChart(canvasId) ==
    /\ this' = destroyChart(this, canvasId)
    /\ UNCHANGED << page, initialized, call >>

NextCharts ==
    \/ \E canvasId \in ChartCanvasIds, count \in 1..MaxDatasets :
           CreateLineChart(canvasId, count)
    \/ \E canvasId \in ChartCanvasIds, index \in 1..MaxDatasets :
           LegendClick(canvasId, index)
    \/ \E canvasId \in ChartCanvasIds : DestroyChart(canvasId)

SpecCharts == InitCharts /\ [][NextCharts]_vars

(***************************************************************************)
(* SpecApp: the application module.  this is the module's state:           *)
(* currentVisualizer (0 for null, else the index of an instance),          *)
(* visualizers (every instance VisualizerFactory.create has built, with    *)
(* whether initialize() has completed and whether destroy() has been       *)
(* called on it), APP_CONFIG and whether the error message is shown.       *)
(* initialized tells whether DOMContentLoaded has fired.  Whether a        *)
(* configuration validates, a constructor throws or initialize() throws    *)
(* depends on the overrides and on the page: each attempt of initializeApp *)
(* gets an outcome [valid, creates, initializes].                          *)
(***************************************************************************)
\* the types named in APP_CONFIG's comment and in VisualizerFactory
VisualizerTypeNames == { "phase-shift", "integral", "fourier" }

\* VisualizerFactory.visualizerTypes
visualizerTypes == { "phase-shift", "integral" }

\* ConfigValidator.schemas
schemas == { "phase-shift" }

Outcomes == [valid : BOOLEAN, creates : BOOLEAN, initializes : BOOLEAN]

\* one outcome for initializeApp and one for its retry
OutcomeSeqs == { << first, retry >> : first \in Outcomes, retry \in Outcomes }

RECURSIVE initializeApp(_, _)
RECURSIVE handleInitializationError(_, _)

\* the module after handleInitializationError(error)
handleInitializationError(app, outcomes) ==
    LET shown == [app EXCEPT !.errorMessage = TRUE]
    IN  IF /\ app.APP_CONFIG.errorHandling.retryOnFailure
           /\ app.APP_CONFIG.visualizerType # "phase-shift"
        THEN initializeApp(
                 [shown EXCEPT
                     !.APP_CONFIG.visualizerType = "phase-shift",
                     !.APP_CONFIG.errorHandling.retryOnFailure = FALSE],
                 outcomes)
        ELSE shown

\* the module after initializeApp()
initializeApp(app, outcomes) ==
    LET outcome == Head(outcomes)
        type == app.APP_CONFIG.visualizerType
        valid == type \in schemas /\ outcome.valid
        created == type \in visualizerTypes /\ outcome.creates
        instance == Len(app.visualizers) + 1
        assigned == [app EXCEPT
                        !.visualizers =
                            Append(@, [type |-> type, initialized |-> FALSE,
                                       destroyed |-> FALSE]),
                        !.currentVisualizer = instance]
    IN  IF ~valid \/ ~created
        THEN handleInitializationError(app, Tail(outcomes))
        ELSE IF outcome.initializes
             THEN [assigned EXCEPT !.visualizers[instance].initialized = TRUE]
             ELSE handleInitializationError(assigned, Tail(outcomes))

\* the module after cleanup(); destroy() has no throw statement
cleanup(app) ==
    IF app.currentVisualizer # 0
    THEN [app EXCEPT !.visualizers[app.currentVisualizer].destroyed = TRUE,
                     !.currentVisualizer = 0]
    ELSE app

\* the module after switchVisualizer(newType, configOverrides): lines
\* 161-164 are the body of cleanup; nothing in the try block throws, since
\* initializeApp catches its own errors
switchVisualizer(app, newType, outcomes) ==
    initializeApp([cleanup(app) EXCEPT !.APP_CONFIG.visualizerType = newType],
                  outcomes)

InitApp ==
    /\ this = [currentVisualizer |-> 0,
               visualizers |-> << >>,
               APP_CONFIG |-> [visualizerType |-> "phase-shift",
                               errorHandling |-> [retryOnFailure |-> FALSE]],
               errorMessage |-> FALSE]
    /\ page = [listeners |-> {"DOMContentLoaded", "beforeunload"}]
    /\ initialized = FALSE
    /\ call = NoCall

\* the document fires DOMContentLoaded once
DOMContentLoaded(outcomes) ==
    /\ ~initialized
    /\ Len(this.visualizers) < MaxVisualizers
    /\ this' = initializeApp(this, outcomes)
    /\ initialized' = TRUE
    /\ UNCHANGED << page, call >>

\* a module that imports switchVisualizer calls it: the export exists as
\* soon as the module is evaluated, which is before DOMContentLoaded
SwitchVisualizer(newType, outcomes) ==
    /\ Len(this.visualizers) < MaxVisualizers
    /\ this' = switchVisualizer(this, newType, outcomes)
    /\ UNCHANGED << page, initialized, call >>

\* the window fires beforeunload (the unload can still be cancelled)
BeforeUnload ==
    /\ this' = cleanup(this)
    /\ UNCHANGED << page, initialized, call >>

NextApp ==
    \/ \E outcomes \in OutcomeSeqs : DOMContentLoaded(outcomes)
    \/ \E newType \in VisualizerTypeNames, outcomes \in OutcomeSeqs :
           SwitchVisualizer(newType, outcomes)
    \/ BeforeUnload

SpecApp == InitApp /\ [][NextApp]_vars

(***************************************************************************)
(* SpecLoop: continuedFractionApprox(x) step by step.  call is the         *)
(* activation record of the method: its local variables, the number of     *)
(* loop bodies begun and the position ("while": at the loop test,          *)
(* "returned": at the return statement, which reads p1 and q1).            *)
(*                                                                         *)
(* The code computes 1/x in doubles.  Where the exact quotient is an       *)
(* integer n > 1 the double is n or falls just below n, so Math.floor      *)
(* gives n or n - 1 (with a remainder just below 1, which the next         *)
(* iteration turns into the quotient 1).  For an input p/q with            *)
(* q <= maxDenominator both lead to the same returned fraction and the     *)
(* step takes either.  For the inputs p/(maxDenominator + 1) the returned  *)
(* fraction depends on it, and the step takes what IEEE-754 division       *)
(* gives for the double nearest the input: roundsBelow lists the p for     *)
(* which the quotient falls below n.                                       *)
(***************************************************************************)
CFInputs ==
    { Rat(p, q) : p \in (-MaxCFNum)..MaxCFNum, q \in 1..MaxCFDen }
    \cup { Rat(p, maxDenominator + 1) : p \in 1..MaxCFLarge }

\* the state at the first loop test: a = Math.floor(x), p0 = 1, p1 = a,
\* q0 = 0, q1 = 1, x = x - a
LoopEntry(x) ==
    [op |-> "continuedFractionApprox", input |-> x, pc |-> "while",
     x |-> RSub(x, Num(MathFloor(x))), a |-> MathFloor(x),
     p0 |-> 1, p1 |-> MathFloor(x), q0 |-> 0, q1 |-> 1, iterations |-> 0]

InitLoop ==
    /\ Constructed(Num(1))
    /\ call \in { LoopEntry(x) : x \in CFInputs }

\* x > 1e-10 && q1 < maxDenominator
LoopTest ==
    /\ call.pc = "while"
    /\ GtPrecision(call.x)
    /\ call.q1 < maxDenominator

\* the numerators p of the inputs p/101 for which the double 1/x falls below
\* the integer it stands for
roundsBelow == { 7, 8, 11, 12 }

\* the values a = Math.floor(x) can take for the x = 1 / x of a loop body
FloorOutcomes(input, x) ==
    IF x[2] = 1 /\ x[1] > 1
    THEN IF input[2] <= maxDenominator THEN { x[1], x[1] - 1 }
         ELSE IF input[1] \in roundsBelow THEN { x[1] - 1 }
         ELSE { x[1] }
    ELSE { MathFloor(x) }

LoopQuotients ==
    IF LoopTest THEN FloorOutcomes(call.input, RDiv(Num(1), call.x)) ELSE {}

\* a loop body that leaves p0, p1, q0 and q1 as they were
LoopIterateNoShift(a) ==
    /\ LoopTest
    /\ a * call.q1 + call.q0 <= maxDenominator
    /\ call' = [call EXCEPT !.x = RSub(RDiv(Num(1), call.x), Num(a)),
                            !.a = a,
                            !.iterations = @ + 1]
    /\ UNCHANGED << this, page, initialized >>

\* a loop body that runs to its end: q2 <= maxDenominator
LoopIterate(a) ==
    /\ LoopTest
    /\ a * call.q1 + call.q0 <= maxDenominator
    /\ call' = [call EXCEPT !.x = RSub(RDiv(Num(1), call.x), Num(a)),
                            !.a = a,
                            !.p0 = call.p1,
                            !.p1 = a * call.p1 + call.p0,
                            !.q0 = call.q1,
                            !.q1 = a * call.q1 + call.q0,
                            !.iterations = @ + 1]
    /\ UNCHANGED << this, page, initialized >>

\* a loop body that leaves at "if (q2 > maxDenominator) break"
LoopBreak(a) ==
    /\ LoopTest
    /\ a * call.q1 + call.q0 > maxDenominator
    /\ call' = [call EXCEPT !.x = RDiv(Num(1), call.x),
                            !.a = a,
                            !.iterations = @ + 1,
                            !.pc = "returned"]
    /\ UNCHANGED << this, page, initialized >>

\* the loop test fails
LoopExit ==
    /\ call.pc = "while"
    /\ ~LoopTest
    /\ call' = [call EXCEPT !.pc = "returned"]
    /\ UNCHANGED << this, page, initialized >>

NextLoop ==
    \/ \E a \in LoopQuotients : LoopIterate(a)
    \/ \E a \in LoopQuotients : LoopBreak(a)
    \/ LoopExit

\* the method runs on: a step that can be taken is taken
SpecLoop == InitLoop /\ [][NextLoop]_vars /\ WF_vars(NextLoop)

(***************************************************************************)
(* Properties of the period resolver.                                      *)
(***************************************************************************)
IsResolveCall == call.op = "calculateOrthogonalPeriodForOmega"

\* C1: with the component periods {2pi, pi, 2pi/3}, the resolver returns
\* exactly 2pi for omega = 1, 2 and 3: LCM(numerators) / GCD(denominators) is 2.
C1_ResolveAtOneTwoThree ==
    (IsResolveCall /\ call.omega \in { Num(1), Num(2), Num(3) }) =>
        /\ call.result = TimesPi(Num(2))
        /\ call.lcmNumerator = 2 * call.gcdDenominator

C1_Witness ==
    IsResolveCall /\ call.omega = Num(3) /\ call.result = TimesPi(Num(2))

\* C2: for omega = 0.5 the analysis period 4pi is rationalized to 4/1 and the
\* resolver returns LCM(2,1,2,4) / GCD(1,1,3,1) = 4 times pi.
C2_ResolveAtHalf ==
    (IsResolveCall /\ call.omega = Rat(1, 2)) =>
        /\ call.rationals[4] = [numerator |-> 4, denominator |-> 1]
        /\ [i \in 1..4 |-> call.rationals[i].numerator] = << 2, 1, 2, 4 >>
        /\ [i \in 1..4 |-> call.rationals[i].denominator] = << 1, 1, 3, 1 >>
        /\ call.lcmNumerator = 4
        /\ call.gcdDenominator = 1
        /\ call.result = TimesPi(Num(4))

C2_Witness ==
    IsResolveCall /\ call.omega = Rat(1, 2) /\ call.result = TimesPi(Num(4))

\* T is a positive-integer multiple of the period P
IsMultipleOf(T, P) ==
    LET ratio == RDiv(OverPi(T), OverPi(P))
    IN  ratio[2] = 1 /\ ratio[1] >= 1

\* T is a multiple of 2pi, pi, 2pi/3 and 2pi/omega
IsCommonPeriod(T, omega) ==
    /\ IsMultipleOf(T, TimesPi(Num(2)))
    /\ IsMultipleOf(T, TimesPi(Num(1)))
    /\ IsMultipleOf(T, TimesPi(Rat(2, 3)))
    /\ IsMultipleOf(T, TimesPi(RDiv(Num(2), omega)))

\* T is the least common period: every common period is a multiple of 2pi, so
\* the smaller candidates are 2pi, 4pi, ... below T
IsLeastCommonPeriod(T, omega) ==
    /\ RLt(Num(0), OverPi(T))
    /\ IsCommonPeriod(T, omega)
    /\ \A k \in 1..(MathFloor(OverPi(T)) \div 2) :
           RLt(Num(2 * k), OverPi(T)) => ~IsCommonPeriod(TimesPi(Num(2 * k)), omega)

\* the denominator of the pi-ratio 2/omega in lowest terms
RatioDenominator(omega) == RDiv(Num(2), omega)[2]

IsIntegrationCall == call.op = "numericalIntegration"

IsConstantSeries(series) == \A i \in 1..Len(series) : series[i] = series[1]

\* the integration period of the visualizer is positive
PositivePeriod == RLt(Num(0), OverPi(calculateOrthogonalPeriod(this)))

\* C4: for a constant series of value v with n >= 2 samples and a period
\* T > 0 the integration returns exactly 2v, independent of n.
C4_ConstantSeries ==
    (IsIntegrationCall /\ PositivePeriod /\ Len(call.productData) >= 2
        /\ IsConstantSeries(call.productData)) =>
        call.result = RMul(Num(2), call.productData[1])

\* C5: the integration returns 0 for an empty series and for a series of one
\* sample, for any period > 0.
C5_EmptyOrSingle ==
    (IsIntegrationCall /\ PositivePeriod /\ Len(call.productData) <= 1) =>
        call.result = Num(0)

C5_Witness ==
    /\ IsIntegrationCall
    /\ call.productData = << Num(2) >>
    /\ call.result = Num(0)
    /\ RLt(Num(0), OverPi(calculateOrthogonalPeriod(this)))

IsSplitCall ==
    call.op \in { "splitDataByIntegrationPeriod", "splitDataByCompositePeriod" }

\* C6: inside and outside both have the input's length, and at every index
\* exactly one of them holds data[i] while the other holds the null marker.
C6_SplitAligned ==
    IsSplitCall =>
        LET inside == call.result.inside.data
            outside == call.result.outside.data
        IN  /\ Len(call.data) = Len(call.timeArray)
            /\ Len(inside) = Len(call.data)
            /\ Len(outside) = Len(call.data)
            /\ \A i \in 1..Len(call.data) :
                   \/ inside[i] = call.data[i] /\ outside[i] = null
                   \/ inside[i] = null /\ outside[i] = call.data[i]

C6_Witness ==
    /\ call.op = "splitDataByCompositePeriod"
    /\ Len(call.data) = 2
    /\ call.result.inside.data[1] = null
    /\ call.result.outside.data[2] = null

C6_WitnessEmpty ==
    /\ call.op = "splitDataByIntegrationPeriod"
    /\ call.data = << >>
    /\ call.result.inside.data = << >>

\* C7: a sample is in the inside series if and only if
\* windowStart <= time <= windowEnd, the window being [-T/2, T/2] for the
\* integration period T; a sample at either end of the window is inside.
C7_InsideIffInWindow ==
    call.op = "splitDataByIntegrationPeriod" =>
        LET half == RDiv(OverPi(calculateOrthogonalPeriod(this)), Num(2))
        IN  \A i \in 1..Len(call.data) :
                LET time == OverPi(call.timeArray[i])
                    inWindow == RLe(RNeg(half), time) /\ RLe(time, half)
                IN  /\ inWindow <=> call.result.inside.data[i] = call.data[i]
                    /\ ~inWindow <=> call.result.outside.data[i] = call.data[i]

C7_Witness ==
    /\ call.op = "splitDataByIntegrationPeriod"
    /\ Len(call.data) = 2
    /\ OverPi(call.timeArray[1]) = RNeg(RDiv(OverPi(calculateOrthogonalPeriod(this)), Num(2)))
    /\ OverPi(call.timeArray[2]) = RDiv(OverPi(calculateOrthogonalPeriod(this)), Num(2))
    /\ call.result.inside.data = call.data

\* C8: "0" when |v| < 0.001; otherwise "0.707" / "-0.707" when
\* ||v| - 0.707| < 0.01; otherwise the nearest integer to v as a string;
\* 0.0003 gives "0", 0.706 gives "0.707", -0.71 gives "-0.707", 2.4 gives "2".
C8_FormatCoefficient ==
    call.op = "formatIntegralValue" =>
        LET v == call.value
            small == RLt(RAbs(v), Rat(1, 1000))
            nearRoot == RLt(RAbs(RSub(RAbs(v), Rat(707, 1000))), Rat(1, 100))
        IN  /\ small => call.result = "0"
            /\ (~small /\ nearRoot /\ RLt(Num(0), v)) => call.result = "0.707"
            /\ (~small /\ nearRoot /\ RLt(v, Num(0))) => call.result = "-0.707"
            /\ (~small /\ ~nearRoot) =>
                   \E k \in MathFloor(v)..(MathFloor(v) + 1) :
                       /\ RLe(RAbs(RSub(v, Num(k))), Rat(1, 2))
                       /\ call.result = ToString(k)
            /\ v = Rat(3, 10000) => call.result = "0"
            /\ v = Rat(706, 1000) => call.result = "0.707"
            /\ v = Rat(-71, 100) => call.result = "-0.707"
            /\ v = Rat(24, 10) => call.result = "2"

C8_Witness ==
    /\ call.op = "formatIntegralValue"
    /\ call.value = Rat(-71, 100)
    /\ call.result = "-0.707"


(***************************************************************************)
(* Properties of the display window, under Spec.                           *)
(***************************************************************************)
\* the x-axis range a chart was last given
xRange(chart) == << chart.scales.x.min, chart.scales.x.max >>

\* [-period/2, +period/2]
windowOf(period) ==
    << TimesPi(RNeg(RDiv(OverPi(period), Num(2)))),
       TimesPi(RDiv(OverPi(period), Num(2))) >>

\* C9: maxDisplayPeriod keeps the value the constructor computed through every
\* frequency and phase change, and once the charts exist the display time grid
\* is the grid of that period and every chart's x axis spans
\* [-maxDisplayPeriod/2, +maxDisplayPeriod/2] of that period.
C9_DisplayWindowFixed ==
    /\ this.maxDisplayPeriod = calculateMaxOrthogonalPeriod
    /\ initialized =>
          /\ this.timeArray = timeGrid(calculateMaxOrthogonalPeriod)
          /\ \A name \in DOMAIN this.charts :
                xRange(this.charts[name]) = windowOf(calculateMaxOrthogonalPeriod)

\* the frequency and the phase have both been changed, and the integration
\* window is narrower than the display window
C9_Witness ==
    /\ initialized
    /\ this.angularFrequency = Num(2)
    /\ this.phaseShift = Radians(Rat(79, 100))
    /\ calculateOrthogonalPeriod(this) = TimesPi(Num(2))
    /\ this.maxDisplayPeriod = TimesPi(Num(20))

\* the integration-window period does not exceed the display period
PeriodWithinDisplay ==
    RLe(OverPi(calculateOrthogonalPeriod(this)), OverPi(this.maxDisplayPeriod))

\* C10 as stated: for every frequency of the range 0.5 .. 3.0 the integration
\* window period is at most maxDisplayPeriod.
C10_PeriodWithinDisplayInRange ==
    (RLe(Rat(1, 2), this.angularFrequency) /\ RLe(this.angularFrequency, Num(3)))
        => PeriodWithinDisplay

\* C10: for every frequency on the slider grid 0.5, 0.6, ..., 3.0 the
\* integration window period is at most maxDisplayPeriod.
C10_PeriodWithinDisplayOnGrid ==
    this.angularFrequency \in SliderGrid => PeriodWithinDisplay

\* a grid frequency whose integration window fills the display window
C10_Witness ==
    /\ initialized
    /\ this.angularFrequency = Rat(7, 10)
    /\ calculateOrthogonalPeriod(this) = this.maxDisplayPeriod

(***************************************************************************)
(* Properties of toRational, under SpecCalls.                              *)
(***************************************************************************)
IsRationalizeCall == call.op = "toRational"

\* |x - y| < 1e-10
WithinPrecision(x, y) == LtPrecision(RAbs(RSub(x, y)))

\* the value numerator / denominator of a returned fraction
FractionValue(fraction) == Rat(fraction.numerator, fraction.denominator)

\* C11: a decimal within 1e-10 of 2, of 1 or of 2/3 is returned as 2/1, 1/1 or
\* 2/3 by the matching shortcut, before any other branch, and the returned
\* fraction is within 1e-10 of the decimal.
C11_ExactShortcuts ==
    IsRationalizeCall =>
        /\ WithinPrecision(call.decimal, Num(2)) =>
              /\ call.at = "2"
              /\ call.result = [numerator |-> 2, denominator |-> 1]
        /\ WithinPrecision(call.decimal, Num(1)) =>
              /\ call.at = "1"
              /\ call.result = [numerator |-> 1, denominator |-> 1]
        /\ WithinPrecision(call.decimal, Rat(2, 3)) =>
              /\ call.at = "2/3"
              /\ call.result = [numerator |-> 2, denominator |-> 3]
        /\ call.at \in { "2", "1", "2/3" } =>
              WithinPrecision(FractionValue(call.result), call.decimal)

C11_Witness ==
    /\ IsRationalizeCall
    /\ call.decimal = Num(1)
    /\ call.at = "1"
    /\ call.result = [numerator |-> 1, denominator |-> 1]

(***************************************************************************)
(* Properties of the recomputation, under Spec.                            *)
(***************************************************************************)
\* the integration period of an object, and the integration samples and the
\* two coefficients it holds
IntegrationResults(self) ==
    << calculateOrthogonalPeriod(self), self.integrationData,
       self.waveforms.cosineIntegral, self.waveforms.sineIntegral >>

\* C12: whatever frequency and phase changes came before, the integration
\* period, samples and cosine and sine coefficients the visualizer holds at
\* frequency omega are those a freshly constructed visualizer computes at
\* omega, and the titles show those coefficients.
C12_HistoryIndependent ==
    initialized =>
        \A fresh \in { calculateWaveforms(FreshVisualizer(this.angularFrequency)) } :
            /\ IntegrationResults(this) = IntegrationResults(fresh)
            /\ page.cosineTitle[2] = formatIntegralValue(fresh.waveforms.cosineIntegral)
            /\ page.sineTitle[2] = formatIntegralValue(fresh.waveforms.sineIntegral)

\* the frequency was changed away from the constructor's 1.0, and what is
\* held differs from what was held at 1.0
C12_Witness ==
    /\ initialized
    /\ this.angularFrequency = Rat(1, 2)
    /\ page.angularFrequencyValue = "0.5"
    /\ IntegrationResults(this)
           = IntegrationResults(calculateWaveforms(FreshVisualizer(Rat(1, 2))))
    /\ IntegrationResults(this)
           # IntegrationResults(calculateWaveforms(FreshVisualizer(Num(1))))

(***************************************************************************)
(* Properties of the error conditions, under SpecCalls.                    *)
(***************************************************************************)
\* the conditions a computation would signal in place of a Number
InvalidFrequency == [error |-> "InvalidFrequency"]
InvalidPeriod == << "InvalidPeriod" >>

\* C13: for a frequency omega <= 0 the resolver signals InvalidFrequency and
\* returns no numeric period.
C13_InvalidFrequency ==
    (IsResolveCall /\ RLe(call.omega, Num(0))) => call.result = InvalidFrequency

\* C14: an integration of at least two samples over a period <= 0 signals
\* InvalidPeriod and returns neither NaN nor an Infinity.
C14_InvalidPeriod ==
    (IsIntegrationCall /\ ~PositivePeriod /\ Len(call.productData) >= 2) =>
        call.result = InvalidPeriod

(***************************************************************************)
(* Properties of the two time grids, under Spec.                           *)
(***************************************************************************)
\* the time -period/2 + fraction * period
WindowTime(period, fraction) ==
    TimesPi(RAdd(RNeg(RDiv(OverPi(period), Num(2))),
                 RMul(fraction, OverPi(period))))

\* the products f(t)cos(omega t) and f(t)sin(omega t) sampled at points + 1
\* evenly spaced times of the window [-period/2, period/2]
WindowSamples(self, period) ==
    [cosineProduct |->
         [i \in 1..(points + 1) |->
             cosineProductAt(self, WindowTime(period, Rat(i - 1, points)))],
     sineProduct |->
         [i \in 1..(points + 1) |->
             sineProductAt(self, WindowTime(period, Rat(i - 1, points)))]]

\* C15: the coefficients held and shown are integrated from the samples of
\* the integration grid, whose window is exactly [-T/2, T/2] with T the
\* resolved period of the current frequency, never from the display samples;
\* the display grid spans [-maxDisplayPeriod/2, maxDisplayPeriod/2] whatever
\* the frequency; and the charts partition the display samples over the
\* display grid only.
C15_IntegrationGridOnly ==
    initialized =>
        \A T \in { calculateOrthogonalPeriodForOmega(this.angularFrequency) } :
        \A integration \in { WindowSamples(this, T) } :
        \A display \in { WindowSamples(this, calculateMaxOrthogonalPeriod) } :
        \A cosine \in { numericalIntegration(this, integration.cosineProduct) } :
        \A sine \in { numericalIntegration(this, integration.sineProduct) } :
            /\ this.integrationData = integration
            /\ this.waveforms.cosineIntegral = cosine
            /\ this.waveforms.sineIntegral = sine
            /\ page.cosineTitle[2] = formatIntegralValue(cosine)
            /\ page.sineTitle[2] = formatIntegralValue(sine)
            /\ this.charts.cosineIntegration.datasets[3]
                   = [i \in 1..(points + 1) |-> cosine]
            /\ this.charts.sineIntegration.datasets[3]
                   = [i \in 1..(points + 1) |-> sine]
            /\ Len(this.timeArray) = points + 1
            /\ this.timeArray[1]
                   = WindowTime(calculateMaxOrthogonalPeriod, Num(0))
            /\ this.timeArray[points + 1]
                   = WindowTime(calculateMaxOrthogonalPeriod, Num(1))
            /\ this.waveforms.cosineProduct = display.cosineProduct
            /\ this.waveforms.sineProduct = display.sineProduct
            /\ \A split \in { splitDataByIntegrationPeriod(
                                   this, display.cosineProduct, this.timeArray) } :
                   /\ this.charts.cosineIntegration.labels = split.allLabels
                   /\ this.charts.cosineIntegration.datasets[1] = split.inside.data
                   /\ this.charts.cosineIntegration.datasets[2] = split.outside.data
            /\ \A split \in { splitDataByIntegrationPeriod(
                                   this, display.sineProduct, this.timeArray) } :
                   /\ this.charts.sineIntegration.labels = split.allLabels
                   /\ this.charts.sineIntegration.datasets[1] = split.inside.data
                   /\ this.charts.sineIntegration.datasets[2] = split.outside.data

\* at frequency 1 the integration window (2 pi) is narrower than the display
\* window, the two grids sample different values, and the cosine coefficient
\* held differs from what the display samples would integrate to
C15_Witness ==
    /\ initialized
    /\ this.angularFrequency = Num(1)
    /\ calculateOrthogonalPeriod(this) # this.maxDisplayPeriod
    /\ this.integrationData.cosineProduct # this.waveforms.cosineProduct
    /\ this.waveforms.cosineIntegral
           = numericalIntegration(this, this.integrationData.cosineProduct)
    /\ this.waveforms.cosineIntegral
           # numericalIntegration(this, this.waveforms.cosineProduct)

(***************************************************************************)
(* The open trapezoid rule, under SpecCalls.                               *)
(***************************************************************************)
\* the sum over i = 1..k of (s[i] + s[i+1]) * width / 2
RECURSIVE TrapezoidsUpTo(_, _, _)
TrapezoidsUpTo(s, width, k) ==
    IF k = 0 THEN Num(0)
    ELSE RAdd(TrapezoidsUpTo(s, width, k - 1),
              RDiv(RMul(RAdd(s[k], s[k + 1]), width), Num(2)))

\* C16: for n >= 2 samples and a period T > 0 the integration returns
\* (2/T) times the sum of the n - 1 trapezoids (s[i] + s[i+1]) * (T/n) / 2
\* of the consecutive pairs; the pair (last, first) is not added.
C16_OpenTrapezoids ==
    (IsIntegrationCall /\ PositivePeriod /\ Len(call.productData) >= 2) =>
        \A T \in { OverPi(calculateOrthogonalPeriod(this)) } :
            LET n == Len(call.productData)
            IN  call.result
                    = RMul(RDiv(Num(2), T),
                           TrapezoidsUpTo(call.productData, RDiv(T, Num(n)), n - 1))

\* three samples: (1/3) * ((-1 + 0) + (0 + 2)) = 1/3; the closed rule would
\* give 2/3 and a spacing of T/2 would give 1/2
C16_Witness ==
    /\ IsIntegrationCall
    /\ PositivePeriod
    /\ call.productData = << Num(-1), Num(0), Num(2) >>
    /\ call.result = Rat(1, 3)

(***************************************************************************)
(* The scan of calculateMaxOrthogonalPeriod, under SpecCalls.              *)
(***************************************************************************)
IsMaxPeriodCall == call.op = "calculateMaxOrthogonalPeriod"

\* C17: the scan visits every frequency of the grid 0.5, 0.6, ..., 3.0, both
\* endpoints included, and returns the largest resolved period of that grid:
\* the period of some grid frequency, exceeded by that of none.
C17_ScansWholeGrid ==
    IsMaxPeriodCall =>
        /\ call.scanned = SliderGrid
        /\ \E omega \in SliderGrid :
               call.result = calculateOrthogonalPeriodForOmega(omega)
        /\ \A omega \in SliderGrid :
               RLe(OverPi(calculateOrthogonalPeriodForOmega(omega)),
                   OverPi(call.result))

(***************************************************************************)
(* calculateLCMOfPeriods on arbitrary period lists, under SpecCalls.       *)
(***************************************************************************)
IsLCMCall == call.op = "calculateLCMOfPeriods"

\* the least positive integer every member of a set of positive integers
\* divides, and the greatest integer that divides every member
LeastMultiple(S) ==
    CHOOSE m \in 1..1000 :
        /\ \A v \in S : m % v = 0
        /\ \A k \in 1..(m - 1) : \E v \in S : k % v # 0

GreatestDivisor(S) ==
    CHOOSE g \in 1..1000 :
        /\ \A v \in S : v % g = 0
        /\ \A k \in (g + 1)..1000 : \E v \in S : v % k # 0

\* T is a positive-integer multiple of every period of the sequence
IsCommonMultiple(T, periods) ==
    \A i \in 1..Len(periods) : IsMultipleOf(T, periods[i])

\* C18: for a non-empty sequence of positive rational multiples of pi the
\* result is pi * LCM(numerators) / GCD(denominators) of the rationalized
\* ratios, and it is the least positive number that is an integer multiple
\* of every period of the sequence.
C18_LeastCommonMultiple ==
    IsLCMCall =>
        /\ call.result
               = TimesPi(Rat(LeastMultiple({ call.rationals[i].numerator :
                                                 i \in 1..Len(call.rationals) }),
                             GreatestDivisor({ call.rationals[i].denominator :
                                                 i \in 1..Len(call.rationals) })))
        /\ IsCommonMultiple(call.result, call.periods)
        /\ \A k \in 1..MathFloor(RDiv(OverPi(call.result),
                                       OverPi(call.periods[1]))) :
               LET candidate == TimesPi(RMul(Num(k), OverPi(call.periods[1])))
               IN  RLt(OverPi(candidate), OverPi(call.result))
                       => ~IsCommonMultiple(candidate, call.periods)

(***************************************************************************)
(* The branch order of toRational, under SpecCalls.                        *)
(***************************************************************************)
\* x is within 1e-10 of an integer
NearInteger(x) == WithinPrecision(x, Num(MathRound(x)))

Fraction(n, d) == [numerator |-> n, denominator |-> d]

\* C19: toRational returns at the first branch that matches, in the order:
\* the shortcuts 2, 1 and 2/3; 2/x within 1e-10 of an integer k, giving 2/k;
\* 4/x within 1e-10 of an integer m, giving 4/m; the continued fraction.  The
\* ratios 2, 4/3, 1, 4/5 and 2/3 of omega = 1.0, 1.5, 2.0, 2.5 and 3.0 give
\* 2/1, 4/3, 1/1, 4/5 and 2/3 without reaching the continued fraction.
C19_BranchOrder ==
    IsRationalizeCall =>
        LET x == call.decimal
            k == RDiv(Num(2), x)
            m == RDiv(Num(4), x)
        IN  /\ IF WithinPrecision(x, Num(2))
               THEN call.at = "2" /\ call.result = Fraction(2, 1)
               ELSE IF WithinPrecision(x, Num(1))
               THEN call.at = "1" /\ call.result = Fraction(1, 1)
               ELSE IF WithinPrecision(x, Rat(2, 3))
               THEN call.at = "2/3" /\ call.result = Fraction(2, 3)
               ELSE IF RLt(Num(0), x) /\ NearInteger(k)
               THEN call.at = "integer" /\ call.result = Fraction(2, MathRound(k))
               ELSE IF RLt(Num(0), x) /\ NearInteger(m)
               THEN /\ call.at = "half-integer"
                    /\ call.result = Fraction(4, MathRound(m))
               ELSE call.at = "continued-fraction"
            /\ \A omega \in { Num(1), Rat(3, 2), Num(2), Rat(5, 2), Num(3) } :
                   x = RDiv(Num(2), omega) =>
                       /\ call.at # "continued-fraction"
                       /\ FractionValue(call.result) = x
                       /\ call.result.numerator = x[1]
                       /\ call.result.denominator = x[2]

\* 2/omega for omega = 2.5: not a shortcut, 2/x = 2.5 is no integer, 4/x = 5
\* is, so the half-integer branch returns 4/5
C19_Witness ==
    /\ IsRationalizeCall
    /\ call.decimal = Rat(4, 5)
    /\ call.at = "half-integer"
    /\ call.result = Fraction(4, 5)

\* a decimal that reaches the last branch
C19_WitnessFallback ==
    /\ IsRationalizeCall
    /\ call.decimal = Rat(3, 7)
    /\ call.at = "continued-fraction"
    /\ call.result = Fraction(3, 7)

(***************************************************************************)
(* The sign of the fraction toRational returns, under SpecCalls.           *)
(***************************************************************************)
\* C20: for every finite x > 0 toRational returns a numerator >= 1 and a
\* denominator >= 1.
C20_PositiveFraction ==
    (IsRationalizeCall /\ IsFinite(call.decimal) /\ RLt(Num(0), call.decimal)) =>
        /\ call.result.numerator >= 1
        /\ call.result.denominator >= 1

(***************************************************************************)
(* Reduced fractions, under SpecCalls.                                     *)
(***************************************************************************)
\* no integer above 1 divides both n and d
InLowestTerms(n, d) ==
    \A k \in 2..d : ~(n % k = 0 /\ d % k = 0)

\* C21: for every x > 0 the fraction toRational returns is in lowest terms,
\* whichever branch returns it.
C21_LowestTerms ==
    (IsRationalizeCall /\ RLt(Num(0), call.decimal)) =>
        InLowestTerms(call.result.numerator, call.result.denominator)

(***************************************************************************)
(* Properties of the continued-fraction loop, under SpecLoop.              *)
(***************************************************************************)
IsLoopCall == call.op = "continuedFractionApprox"

\* the step begins a loop body
BeginsBody == call'.iterations = call.iterations + 1

\* C22: continuedFractionApprox returns for every finite input, after at
\* most 30 loop bodies; q1 never decreases and grows with every body that
\* runs to its end from the second on; a remainder of at most 1e-10 ends the
\* loop at once, and so does a next denominator above 100, which is never
\* stored.
C22_Terminates ==
    /\ <>(call.pc = "returned")
    /\ [](call.iterations <= 30 /\ call.q1 <= maxDenominator)
    /\ [][/\ call'.q1 >= call.q1
           /\ ((BeginsBody /\ call'.pc = "while" /\ call.iterations >= 1)
                  => call'.q1 > call.q1)
           /\ ((call.pc = "while" /\ ~GtPrecision(call.x))
                  => (call'.pc = "returned" /\ ~BeginsBody))
           /\ ((BeginsBody /\ call'.a * call.q1 + call.q0 > maxDenominator)
                  => (/\ call'.pc = "returned"
                      /\ call'.p1 = call.p1
                      /\ call'.q1 = call.q1))]_vars

\* 5/12 = [0; 2, 2, 2]: three loop bodies with q1 = 2, 5, 12, then the
\* remainder is 0 and the loop test fails
C22_Witness ==
    /\ IsLoopCall
    /\ call.input = Rat(5, 12)
    /\ call.pc = "returned"
    /\ call.iterations = 3
    /\ call.p1 = 5
    /\ call.q1 = 12

\* the last convergent with a denominator of at most maxDenominator in the
\* continued-fraction expansion of n/d, by Euclid's algorithm: p0/q0 and
\* p1/q1 are the two convergents before the quotient n \div d
RECURSIVE LastConvergentFrom(_, _, _, _, _, _)
LastConvergentFrom(n, d, p0, p1, q0, q1) ==
    IF d = 0 THEN [numerator |-> p1, denominator |-> q1]
    ELSE LET a == n \div d
         IN  IF a * q1 + q0 > maxDenominator
             THEN [numerator |-> p1, denominator |-> q1]
             ELSE LastConvergentFrom(d, n % d, p1, a * p1 + p0, q1, a * q1 + q0)

LastConvergent(x) == LastConvergentFrom(x[1], x[2], 0, 1, 1, 0)

\* what the return statement of continuedFractionApprox returns
LoopResult == [numerator |-> call.p1, denominator |-> call.q1]

\* C23: for every x >= 0 continuedFractionApprox returns p/q with
\* 1 <= q <= 100 that is the last convergent of x's continued-fraction
\* expansion with a denominator of at most 100 (x itself when the expansion
\* ends before that).
C23_LastConvergent ==
    (IsLoopCall /\ call.pc = "returned" /\ RLe(Num(0), call.input)) =>
        /\ 1 <= call.q1 /\ call.q1 <= maxDenominator
        /\ LoopResult = LastConvergent(call.input)
        /\ call.input[2] <= maxDenominator => FractionValue(LoopResult) = call.input

(***************************************************************************)
(* The periods of the slider grid, under SpecCalls.                        *)
(***************************************************************************)
\* C24: for a grid frequency k/10 (k in 5..30), p/q in lowest terms, the
\* resolver returns 2q pi, a positive multiple of the composite period 2 pi;
\* the maximum over the grid, which the constructor stores as
\* maxDisplayPeriod, is 20 pi.
C24_GridPeriods ==
    /\ (IsResolveCall /\ call.omega \in SliderGrid) =>
           /\ call.result = TimesPi(Num(2 * call.omega[2]))
           /\ IsMultipleOf(call.result, calculateCompositePeriod)
    /\ IsMaxPeriodCall =>
           /\ \A k \in 5..30 :
                  \A period \in { calculateOrthogonalPeriodForOmega(Rat(k, 10)) } :
                      /\ period = TimesPi(Num(2 * Rat(k, 10)[2]))
                      /\ RLe(OverPi(period), OverPi(call.result))
           /\ call.result = TimesPi(Num(20))
           /\ this.maxDisplayPeriod = TimesPi(Num(20))

\* omega = 2.5 = 5/2 resolves to 4 pi
C24_Witness ==
    /\ IsResolveCall
    /\ call.omega = Rat(5, 2)
    /\ call.result = TimesPi(Num(4))

\* the scan returns 20 pi, the period of the grid frequency 0.7 = 7/10
C24_WitnessMax ==
    /\ IsMaxPeriodCall
    /\ call.result = TimesPi(Num(20))
    /\ calculateOrthogonalPeriodForOmega(Rat(7, 10)) = call.result

(***************************************************************************)
(* The period cancels in the integration, under SpecCalls.                 *)
(***************************************************************************)
\* the sum of s[i] + s[i+1] over the consecutive pairs of s
PairSum(s) == IF Len(s) <= 1 THEN Num(0) ELSE TrapezoidsUpTo(s, Num(2), Len(s) - 1)

\* frequencies whose periods are 4 pi, 20 pi, 2 pi and 2 pi
OtherFrequencies == { Rat(1, 2), Rat(7, 10), Num(1), Num(3) }

\* C25: the result of the integration does not depend on the period: for
\* every series of n >= 1 samples and every period T > 0 it is the sum of
\* s[i] + s[i+1] over the consecutive pairs, divided by n, so that two
\* visualizers with different positive periods return the same value.
C25_PeriodIndependent ==
    (IsIntegrationCall /\ PositivePeriod) =>
        /\ Len(call.productData) >= 1 =>
               call.result
                   = RDiv(PairSum(call.productData), Num(Len(call.productData)))
        /\ \A omega \in OtherFrequencies :
               \A other \in { [this EXCEPT !.angularFrequency = omega] } :
                   /\ RLt(Num(0), OverPi(calculateOrthogonalPeriod(other)))
                   /\ numericalIntegration(other, call.productData) = call.result

\* a visualizer of period 4 pi returns 1/3 for (-1, 0, 2), as one of period
\* 20 pi does
C25_Witness ==
    /\ IsIntegrationCall
    /\ calculateOrthogonalPeriod(this) = TimesPi(Num(4))
    /\ call.productData = << Num(-1), Num(0), Num(2) >>
    /\ call.result = Rat(1, 3)
    /\ calculateOrthogonalPeriod([this EXCEPT !.angularFrequency = Rat(7, 10)])
           = TimesPi(Num(20))
    /\ numericalIntegration([this EXCEPT !.angularFrequency = Rat(7, 10)],
                            call.productData) = call.result

(***************************************************************************)
(* The frame of a phase-shift event, under Spec.                           *)
(***************************************************************************)
\* the step is PhaseShiftInput(value) for some slider value, which is then
\* the phaseShift stored; the frequency test comes first because it is cheap
IsPhaseShiftInput ==
    /\ this'.phaseShift \in PhaseInputs
    /\ this'.angularFrequency = this.angularFrequency
    /\ PhaseShiftInput(this'.phaseShift)

IsFormatCall == call.op = "formatIntegralValue"

\* the decimal strings of the integers the formatted values round to
IntegerStrings == { ToString(k) : k \in (-4)..4 }

\* C27: a finite value that neither the zero rule nor the 0.707 rule catches
\* is rounded with ties toward +infinity (2.5 gives "3", -2.5 gives "-2"),
\* and "0" is shown for every such value in [-0.5, 0.5), never "-0"; the
\* result is always "0", "0.707", "-0.707" or the decimal string of an
\* integer.
C27_RoundHalfUp ==
    (IsFormatCall /\ IsFinite(call.value)) =>
        LET v == call.value
            small == RLt(RAbs(v), Rat(1, 1000))
            nearRoot == RLt(RAbs(RSub(RAbs(v), Rat(707, 1000))), Rat(1, 100))
        IN  /\ call.result \in { "0.707", "-0.707" } \cup IntegerStrings
            /\ call.result # "-0"
            /\ (~small /\ ~nearRoot) =>
                   (/\ (RLe(Rat(-1, 2), v) /\ RLt(v, Rat(1, 2))) => call.result = "0"
                    /\ v[2] = 2 => call.result = ToString((v[1] + 1) \div 2)
                    /\ \E k \in (-4)..4 :
                           /\ call.result = ToString(k)
                           /\ RLe(RSub(Num(k), Rat(1, 2)), v)
                           /\ RLt(v, RAdd(Num(k), Rat(1, 2))))
            /\ v = Rat(5, 2) => call.result = "3"
            /\ v = Rat(-5, 2) => call.result = "-2"

C27_Witness ==
    /\ IsFormatCall
    /\ call.value = Rat(-5, 2)
    /\ call.result = "-2"

\* a value of [-0.5, 0) outside the zero rule
C27_WitnessZero ==
    /\ IsFormatCall
    /\ call.value = Rat(-3, 10)
    /\ call.result = "0"

(***************************************************************************)
(* Discovery effects are temporary, under SpecEffects.                     *)
(***************************************************************************)
\* the number of triggerDiscoveryEffect calls of one checkForDiscoveries()
Discoveries(omega) ==
    (IF IsCosineDiscovery(omega) THEN 1 ELSE 0)
        + (IF IsSineDiscovery(omega) THEN 1 ELSE 0)

\* a timer is pending that removes the badge / the glow class of the canvas
BadgeTimerPending(document, badge) ==
    \E i \in 1..Len(document.timers) :
        document.timers[i] = [remove |-> "badge", badge |-> badge.id]

GlowTimerPending(document, canvas, glowClass) ==
    \E i \in 1..Len(document.timers) :
        document.timers[i]
            = [remove |-> "glow", canvas |-> canvas, glowClass |-> glowClass]

\* C28: every discovery effect is temporary.  A badge in the document and a
\* glow class on a canvas each have a timer pending that removes them, so
\* that with no timer pending no badge and no glow class remains, however
\* events and timers interleave; a step that triggers k effects adds k badges
\* and 2k timers and leaves the glow class on each canvas concerned; a timer
\* callback changes neither the visualizer (frequency, periods,
\* coefficients) nor the titles.
C28_TemporaryEffects ==
    /\ [](/\ \A badge \in page.document.badges :
                 BadgeTimerPending(page.document, badge)
          /\ \A canvas \in Canvases :
                 \A glowClass \in page.document.classList[canvas] :
                     GlowTimerPending(page.document, canvas, glowClass)
          /\ page.document.timers = << >> =>
                 /\ page.document.badges = {}
                 /\ \A canvas \in Canvases :
                        page.document.classList[canvas] \cap GlowClasses = {})
    /\ [][IF Len(page'.document.timers) < Len(page.document.timers)
          THEN /\ this' = this
               /\ calculateOrthogonalPeriod(this') = calculateOrthogonalPeriod(this)
               /\ page' = [page EXCEPT !.document = page'.document]
               /\ Len(page'.document.timers) = Len(page.document.timers) - 1
          ELSE /\ Len(page'.document.timers)
                      = Len(page.document.timers)
                            + 2 * Discoveries(this'.angularFrequency)
               /\ Cardinality(page'.document.badges)
                      = Cardinality(page.document.badges)
                            + Discoveries(this'.angularFrequency)
               /\ IsCosineDiscovery(this'.angularFrequency) =>
                      page'.document.classList["nonPhaseShiftedCosineChart"]
                          = { "discovery-glow-blue" }
               /\ IsSineDiscovery(this'.angularFrequency) =>
                      page'.document.classList["sineWaveChart"]
                          = { "discovery-glow-green" }]_vars

\* the frequency was set to 3.0, which shows both effects, and every timer
\* has fired since
C28_Witness ==
    /\ initialized
    /\ this.angularFrequency = Num(3)
    /\ page.cosineTitle[1] = "3.0"
    /\ page.document = EmptyDocument

\* both effects showing, with their four timers pending
C28_WitnessShowing ==
    /\ initialized
    /\ Cardinality(page.document.badges) = 2
    /\ Len(page.document.timers) = 4
    /\ page.document.classList["nonPhaseShiftedCosineChart"] = { "discovery-glow-blue" }
    /\ page.document.classList["sineWaveChart"] = { "discovery-glow-green" }

(***************************************************************************)
(* Dataset visibility across re-creation, under SpecCharts.                *)
(***************************************************************************)
\* the step replaces the chart of canvasId by a new instance
IsRecreated(canvasId) ==
    /\ this.charts[canvasId].exists
    /\ this'.charts[canvasId].exists
    /\ this'.charts[canvasId].instance # this.charts[canvasId].instance

\* C29: when createLineChart replaces the chart of a canvas, every dataset
\* index of both the old and the new chart is hidden afterwards if it was
\* hidden before and visible if it was visible, whatever legend clicks and
\* re-creations came before; destroyChart removes the chart and the
\* remembered visibility of its canvas, so that a chart created afterwards
\* shows every dataset.
C29_VisibilityKept ==
    [][\A canvasId \in ChartCanvasIds :
          /\ IsRecreated(canvasId) =>
                 \A index \in 1..MaxDatasets :
                     (/\ index <= Len(this.charts[canvasId].meta)
                      /\ index <= Len(this'.charts[canvasId].meta)) =>
                         (IsDatasetVisible(this'.charts[canvasId], index)
                              <=> IsDatasetVisible(this.charts[canvasId], index))
          /\ (this.charts[canvasId].exists /\ ~this'.charts[canvasId].exists) =>
                 ~this'.datasetVisibility[canvasId].defined
          /\ (~this.charts[canvasId].exists /\ this'.charts[canvasId].exists) =>
                 \A index \in 1..Len(this'.charts[canvasId].meta) :
                     IsDatasetVisible(this'.charts[canvasId], index)]_vars

\* a chart with two datasets whose second was hidden by a legend click and
\* is hidden in the chart's second instance
C29_Witness ==
    /\ this.charts["sineWaveChart"].exists
    /\ this.charts["sineWaveChart"].instance = 0
    /\ this.charts["sineWaveChart"].meta = << "null", "true" >>
    /\ this.datasetVisibility["sineWaveChart"].defined
    /\ this.datasetVisibility["sineWaveChart"].of[2] = "false"

(***************************************************************************)
(* One live visualizer, under SpecApp.                                     *)
(***************************************************************************)
\* the instances on which destroy() has not been called
Live(app) ==
    { instance \in 1..Len(app.visualizers) : ~app.visualizers[instance].destroyed }

\* C30: in every reachable state at most one visualizer instance has not
\* been destroyed, and whenever a step replaces currentVisualizer by a new
\* instance, destroy() has been called on the instance it held before.
C30_OneLiveVisualizer ==
    /\ [](Cardinality(Live(this)) <= 1)
    /\ [][(/\ this.currentVisualizer # 0
           /\ this'.currentVisualizer \notin {0, this.currentVisualizer}) =>
              this'.visualizers[this.currentVisualizer].destroyed]_vars

\* switchVisualizer replaced an initialized visualizer after destroying it
C30_WitnessSwitched ==
    /\ initialized
    /\ Len(this.visualizers) = 2
    /\ this.visualizers[1].destroyed
    /\ this.currentVisualizer = 2
    /\ this.visualizers[2].initialized

=============================================================================
